---- MODULE Spec2Model ----
(***************************************************************************)
(* A model of the kaizo_quest battle engine (src/src/onion.rs,             *)
(* src/src/core.rs), of the legacy Character of src/src/kaizo.rs and of    *)
(* the application loop of src/src/main.rs.                                *)
(*                                                                         *)
(* Integer widths.  The checker's integers are 32-bit signed, which is the *)
(* width of the program's i32.  A u32 is kept as a pair of 16-bit halves   *)
(* [hi, lo] wherever its full range matters (the argument of deal_damage), *)
(* so that the cast `as i32` is modelled by what it does.                  *)
(***************************************************************************)
EXTENDS Integers, Sequences, FiniteSets, TLC

VARIABLES
    scene,      \* main.rs Scene: "Menu" or "Battle" ("None": no application)
    player,     \* OnionBattle.player / the Scene::Menu character
    enemy,      \* OnionBattle.enemy
    logs,       \* the States (log lines) returned by the last call
    last,       \* the last call made and its arguments
    panicked,   \* TRUE once a call has panicked (the thread is dead)
    fn          \* input and output of a pure function under check

vars == <<scene, player, enemy, logs, last, panicked, fn>>

Max(a, b) == IF a >= b THEN a ELSE b
Min(a, b) == IF a <= b THEN a ELSE b

(***************************************************************************)
(* Machine integers                                                        *)
(***************************************************************************)
MaxI32 == 2147483647
MinI32 == (0 - MaxI32) - 1
Half == 256 * 256

\* A u32 as two 16-bit halves.
ToU32(n) == [hi |-> n \div Half, lo |-> n % Half]
U32Fits(u) == u.hi < Half \div 2
U32Val(u) == u.hi * Half + u.lo

\* `x as i32` for a u32 x: the same 32 bits read as two's complement.
as_i32(u) == IF U32Fits(u) THEN U32Val(u) ELSE (u.hi - Half) * Half + u.lo

\* i32 subtraction a - b: does it overflow, and the wrapped result.
sub_overflows(a, b) ==
    \/ b > 0 /\ a < MinI32 + b
    \/ b < 0 /\ a > MaxI32 + b

wrapping_sub(a, b) ==
    IF b > 0 /\ a < MinI32 + b THEN MaxI32 - ((b - (a - MinI32)) - 1)
    ELSE IF b < 0 /\ a > MaxI32 + b THEN MinI32 + ((a - (MaxI32 + b)) - 1)
    ELSE a - b

(***************************************************************************)
(* deal_damage                                                             *)
(***************************************************************************)
\* Mutant: the subtraction without the clamp at 0.
deal_damage_health_unclamped(health, damage) == wrapping_sub(health, as_i32(damage))

\* onion.rs: self.state.health = max(0, self.state.health - damage as i32)
deal_damage_health(health, damage) == Max(0, wrapping_sub(health, as_i32(damage)))

deal_damage_overflows(health, damage) == sub_overflows(health, as_i32(damage))

deal_damage(character, damage) ==
    [character EXCEPT !.state.health = deal_damage_health(@, damage)]

\* kaizo.rs: self.state.health = max(0, self.state.health - damage), damage: i32
kaizo_deal_damage_health(health, damage) == Max(0, wrapping_sub(health, damage))

(***************************************************************************)
(* Stats, species and characters (core.rs)                                 *)
(***************************************************************************)
Alignments == {"Rock", "Paper", "Scissors"}

MakeStats(health, attack, defense, speed) ==
    [health |-> health, attack |-> attack, defense |-> defense, speed |-> speed]

\* Stats::zero()
StatsZero == MakeStats(0, 0, 0, 0)

\* AddAssign for Stats<T>
StatsAdd(a, b) ==
    MakeStats(a.health + b.health, a.attack + b.attack,
              a.defense + b.defense, a.speed + b.speed)

\* Scale for Stats<f64>.  A ratio vector is kept as four integer weights over
\* a common power-of-two denominator (0.25 is weight 1 of 4), for which the
\* f64 product, sum, quotient and the truncating cast `as u32` are exact, so
\* each component is floor(a * x / z).  The weights sum to more than 0.
StatsSum(stats) == stats.health + stats.attack + stats.defense + stats.speed

scale_stats(stats, a) ==
    LET z == StatsSum(stats)
    IN MakeStats((a * stats.health) \div z, (a * stats.attack) \div z,
                 (a * stats.defense) \div z, (a * stats.speed) \div z)

\* HashMap<Status, i32>: a function whose domain is the set of keys present.
NoStatus == [s \in {} |-> 0]

contains_key(status, k) == k \in DOMAIN status

\* status.entry(k).or_insert(0)
or_insert(status, k) ==
    IF k \in DOMAIN status THEN status
    ELSE [s \in DOMAIN status \cup {k} |-> IF s = k THEN 0 ELSE status[s]]

\* status.entry(k).and_modify(|s| *s += n)
and_modify_add(status, k, n) ==
    IF k \in DOMAIN status THEN [status EXCEPT ![k] = @ + n] ELSE status

\* status.remove(k)
remove(status, k) == [s \in DOMAIN status \ {k} |-> status[s]]

\* Character::from_species
from_species(species) ==
    [name |-> species.name,
     species |-> species,
     attributes |-> [level |-> 0, experience |-> 0, stats |-> StatsZero,
                     actions |-> <<>>],
     state |-> [alignment |-> species.alignment, health |-> 0,
                status |-> NoStatus]]

\* Character::from_species_and_actions
from_species_and_actions(species, actions) ==
    [from_species(species) EXCEPT !.attributes.actions = actions]

\* Mutant: a refresh that keeps the current alignment.
refresh_keeps_alignment(character) ==
    [character EXCEPT !.state.health = character.attributes.stats.health,
                      !.state.status = NoStatus]

\* Character::refresh.  `stats.health as i32` keeps the value of every u32
\* below 2^31, which is all this model's integers can hold.
refresh(character) ==
    [character EXCEPT !.state = [alignment |-> character.species.alignment,
                                 health |-> character.attributes.stats.health,
                                 status |-> NoStatus]]

\* Character::priority
character_priority(character) == character.attributes.stats.speed

(***************************************************************************)
(* Actions (onion.rs)                                                      *)
(***************************************************************************)
\* Mutant: Rock against Scissors left to the neutral default.
effectiveness_no_rock_scissors(self, other) ==
    IF <<self, other>> \in {<<"Rock", "Paper">>, <<"Paper", "Scissors">>,
                            <<"Scissors", "Rock">>} THEN 5
    ELSE IF <<self, other>> \in {<<"Scissors", "Paper">>, <<"Paper", "Rock">>} THEN 20
    ELSE 10

\* Effectiveness for Alignment
effectiveness(self, other) ==
    IF <<self, other>> \in {<<"Rock", "Paper">>, <<"Paper", "Scissors">>,
                            <<"Scissors", "Rock">>} THEN 5
    ELSE IF <<self, other>> \in {<<"Rock", "Scissors">>, <<"Scissors", "Paper">>,
                                 <<"Paper", "Rock">>} THEN 20
    ELSE 10

\* The action values.  A log line is a tuple: its text and the names in it.
MakeAttack(name, power, alignment, priority) ==
    [kind |-> "Attack", name |-> name, power |-> power,
     alignment |-> alignment, priority |-> priority]
MakePureAttack(name, power) ==
    [kind |-> "PureAttack", name |-> name, power |-> power,
     alignment |-> "Rock", priority |-> 0]
MakeDefend(name) ==
    [kind |-> "Defend", name |-> name, power |-> 0,
     alignment |-> "Rock", priority |-> 0]
MakeBleed(name, power) ==
    [kind |-> "Bleed", name |-> name, power |-> power,
     alignment |-> "Rock", priority |-> 0]
MakeStun(name) ==
    [kind |-> "Stun", name |-> name, power |-> 0,
     alignment |-> "Rock", priority |-> 0]
SKIP ==
    [kind |-> "Skip", name |-> "Skip", power |-> 0,
     alignment |-> "Rock", priority |-> 0]

\* Mutant: a Defend with the trait's default priority.
action_priority_flat(self) == IF self.kind = "Attack" THEN self.priority ELSE 0

\* Action::priority: Attack returns its field, Defend returns 2, the others
\* keep the trait's default 0.
action_priority(self) ==
    IF self.kind = "Attack" THEN self.priority
    ELSE IF self.kind = "Defend" THEN 2
    ELSE 0

\* What an act call returns and does: the two characters afterwards, the log,
\* and whether the call panicked.
ActResult(user, target, lines, panic) ==
    [user |-> user, target |-> target, logs |-> lines, panic |-> panic]

\* Mutant: a damage without the same-alignment bonus.
attack_damage_no_stab(self, user, target) ==
    LET level == (2 * user.attributes.level) \div 5 + 2
        stats == user.attributes.stats.attack \div target.attributes.stats.defense
        eff == effectiveness(self.alignment, target.state.alignment)
    IN ((((level * self.power * stats * 10 * eff) \div 50) \div 10) \div 10) + 2

\* Mutant: a damage without the constant 2.
attack_damage_no_base(self, user, target) ==
    LET level == (2 * user.attributes.level) \div 5 + 2
        stats == user.attributes.stats.attack \div target.attributes.stats.defense
        stab == IF user.state.alignment = self.alignment THEN 15 ELSE 10
        eff == effectiveness(self.alignment, target.state.alignment)
    IN (((level * self.power * stats * stab * eff) \div 50) \div 10) \div 10

\* Mutant: a damage whose constant term is 1.
attack_damage_base_one(self, user, target) ==
    LET level == (2 * user.attributes.level) \div 5 + 2
        stats == user.attributes.stats.attack \div target.attributes.stats.defense
        stab == IF user.state.alignment = self.alignment THEN 15 ELSE 10
        eff == effectiveness(self.alignment, target.state.alignment)
    IN ((((level * self.power * stats * stab * eff) \div 50) \div 10) \div 10) + 1

\* The damage of Attack::act (lines 115-129), for a target with defense > 0.
\* The model's levels, powers and stats keep the u32 product below 2^31.
attack_damage(self, user, target) ==
    LET level == (2 * user.attributes.level) \div 5 + 2
        stats == user.attributes.stats.attack \div target.attributes.stats.defense
        stab == IF user.state.alignment = self.alignment THEN 15 ELSE 10
        eff == effectiveness(self.alignment, target.state.alignment)
    IN ((((level * self.power * stats * stab * eff) \div 50) \div 10) \div 10) + 2

EffectivenessLines(eff) ==
    IF eff = 20 THEN << <<"It's very effective.">> >>
    ELSE IF eff = 5 THEN << <<"It's not very effective.">> >>
    ELSE IF eff = 0 THEN << <<"It has no effect.">> >>
    ELSE << >>

\* Mutant: an Attack that does not look for the target's Defend.
Attack_act_unblocked(self, user, target) ==
    IF target.attributes.stats.defense = 0
    THEN ActResult(user, target, << <<"used", user.name, self.name>> >>, TRUE)
    ELSE ActResult(user,
                   deal_damage(target, ToU32(attack_damage(self, user, target))),
                   << <<"used", user.name, self.name>> >>, FALSE)

\* Attack::act.  The division by a defense of 0 panics.
Attack_act(self, user, target) ==
    LET used == <<"used", user.name, self.name>>
    IN IF contains_key(target.state.status, "Defend")
       THEN ActResult(user, target,
                      <<used, <<"blocked", target.name, user.name, self.name>> >>,
                      FALSE)
       ELSE IF target.attributes.stats.defense = 0
       THEN ActResult(user, target, <<used>>, TRUE)
       ELSE ActResult(user,
                      deal_damage(target, ToU32(attack_damage(self, user, target))),
                      <<used>> \o EffectivenessLines(
                          effectiveness(self.alignment, target.state.alignment)),
                      FALSE)

\* Mutant: a PureAttack whose damage grows with the user's level.
PureAttack_act_levelled(self, user, target) ==
    LET used == <<"used", user.name, self.name>>
    IN IF contains_key(target.state.status, "Defend")
       THEN ActResult(user, target,
                      <<used, <<"blocked attack", target.name, user.name>> >>, FALSE)
       ELSE ActResult(user,
                      deal_damage(target, ToU32(self.power + user.attributes.level)),
                      <<used>>, FALSE)

\* PureAttack::act
PureAttack_act(self, user, target) ==
    LET used == <<"used", user.name, self.name>>
    IN IF contains_key(target.state.status, "Defend")
       THEN ActResult(user, target,
                      <<used, <<"blocked attack", target.name, user.name>> >>, FALSE)
       ELSE ActResult(user, deal_damage(target, ToU32(self.power)), <<used>>, FALSE)

\* Mutant: a Defend that replaces the user's other statuses.
Defend_act_exclusive(self, user, target) ==
    ActResult([user EXCEPT !.state.status = or_insert(NoStatus, "Defend")], target,
              << <<"is defending", user.name>> >>, FALSE)

\* Defend::act
Defend_act(self, user, target) ==
    ActResult([user EXCEPT !.state.status = or_insert(@, "Defend")], target,
              << <<"is defending", user.name>> >>, FALSE)

\* Mutant: a Bleed that does not look for the target's Stun.
Bleed_act_unchecked(self, user, target) ==
    ActResult(user,
              [target EXCEPT !.state.status =
                   and_modify_add(or_insert(@, "Bleed"), "Bleed", self.power)],
              << <<"used", user.name, self.name>>,
                 <<"gained bleeding", target.name, self.power>> >>,
              FALSE)

\* Bleed::act
Bleed_act(self, user, target) ==
    LET used == <<"used", user.name, self.name>>
    IN IF contains_key(target.state.status, "Stun")
       THEN ActResult(user, target, <<used, <<"But is stunned", target.name>> >>, FALSE)
       ELSE ActResult(user,
                      [target EXCEPT !.state.status =
                           and_modify_add(or_insert(@, "Bleed"), "Bleed", self.power)],
                      <<used, <<"gained bleeding", target.name, self.power>> >>,
                      FALSE)

\* Mutant: a Stun that does not look for the target's Bleed.
Stun_act_unchecked(self, user, target) ==
    ActResult(user,
              [target EXCEPT !.state.status =
                   and_modify_add(or_insert(@, "Stun"), "Stun", 1)],
              << <<"used", user.name, self.name>>, <<"is stunned", target.name>> >>,
              FALSE)

\* Mutant: a Stun that starts again from 0 at every application.
Stun_act_reset(self, user, target) ==
    LET used == <<"used", user.name, self.name>>
    IN IF contains_key(target.state.status, "Bleed")
       THEN ActResult(user, target, <<used, <<"But is poisoned", target.name>> >>, FALSE)
       ELSE ActResult(user,
                      [target EXCEPT !.state.status =
                           and_modify_add(or_insert(remove(@, "Stun"), "Stun"),
                                          "Stun", 1)],
                      <<used, <<"is stunned", target.name>> >>,
                      FALSE)

\* Mutant: a Stun that inserts the entry and does not count it.
Stun_act_zero(self, user, target) ==
    LET used == <<"used", user.name, self.name>>
    IN IF contains_key(target.state.status, "Bleed")
       THEN ActResult(user, target, <<used, <<"But is poisoned", target.name>> >>, FALSE)
       ELSE ActResult(user,
                      [target EXCEPT !.state.status = or_insert(@, "Stun")],
                      <<used, <<"is stunned", target.name>> >>,
                      FALSE)

\* Stun::act
Stun_act(self, user, target) ==
    LET used == <<"used", user.name, self.name>>
    IN IF contains_key(target.state.status, "Bleed")
       THEN ActResult(user, target, <<used, <<"But is poisoned", target.name>> >>, FALSE)
       ELSE ActResult(user,
                      [target EXCEPT !.state.status =
                           and_modify_add(or_insert(@, "Stun"), "Stun", 1)],
                      <<used, <<"is stunned", target.name>> >>,
                      FALSE)

\* Skip::act
Skip_act(self, user, target) ==
    ActResult(user, target, << <<"used", user.name, self.name>> >>, FALSE)

\* action.act(user, target) through &dyn Action
act(self, user, target) ==
    CASE self.kind = "Attack" -> Attack_act(self, user, target)
      [] self.kind = "PureAttack" -> PureAttack_act(self, user, target)
      [] self.kind = "Defend" -> Defend_act(self, user, target)
      [] self.kind = "Bleed" -> Bleed_act(self, user, target)
      [] self.kind = "Stun" -> Stun_act(self, user, target)
      [] OTHER -> Skip_act(self, user, target)

(***************************************************************************)
(* Experience and levelling (onion.rs)                                     *)
(***************************************************************************)
BASE_EXPERIENCE == 31
EXPERIENCE_TO_LEVEL == 100
SCALING_FACTOR == 100

\* log2u32 of Experience::experience: (x as f64).log(2.0) as u32 for x > 0,
\* else 0.  The truncated f64 quotient ln(x)/ln(2) equals floor(log2 x) for
\* every x this model reaches.
RECURSIVE log2u32(_)
log2u32(x) == IF x <= 1 THEN 0 ELSE 1 + log2u32(x \div 2)

\* Mutant: an experience whose level factor is the level itself.
experience_by_level(self) ==
    IF self.attributes.level = 0 \/ self.species.bst = 0 THEN 0
    ELSE LET bst == self.species.bst * log2u32(self.species.bst + 1)
         IN (bst * self.attributes.level) \div BASE_EXPERIENCE

\* Experience::experience.  Level >= 1 makes log2u32(level + 1) >= 1.
experience(self) ==
    IF self.attributes.level = 0 \/ self.species.bst = 0 THEN 0
    ELSE LET bst == self.species.bst * log2u32(self.species.bst + 1)
             level == self.attributes.level \div log2u32(self.attributes.level + 1)
         IN (bst * level) \div BASE_EXPERIENCE

\* Mutant: a call that gains at most one level.
gain_experience_one_level(self, amount) ==
    LET total == self.attributes.experience + amount
        levels == Min(1, total \div EXPERIENCE_TO_LEVEL)
        gained == [self EXCEPT !.attributes.experience = total % EXPERIENCE_TO_LEVEL,
                               !.attributes.level = @ + levels]
    IN IF levels > 0
       THEN [gained EXCEPT !.attributes.stats =
                 StatsAdd(@, scale_stats(self.species.stats, SCALING_FACTOR))]
       ELSE gained

\* Mutant: one stat increment for each level gained.
gain_experience_per_level(self, amount) ==
    LET total == self.attributes.experience + amount
        levels == total \div EXPERIENCE_TO_LEVEL
        gained == [self EXCEPT !.attributes.experience = total % EXPERIENCE_TO_LEVEL,
                               !.attributes.level = @ + levels]
    IN IF levels > 0
       THEN [gained EXCEPT !.attributes.stats =
                 StatsAdd(@, scale_stats(self.species.stats, levels * SCALING_FACTOR))]
       ELSE gained

\* Experience::gain_experience: the character afterwards.
gain_experience(self, amount) ==
    LET total == self.attributes.experience + amount
        levels == total \div EXPERIENCE_TO_LEVEL
        gained == [self EXCEPT !.attributes.experience = total % EXPERIENCE_TO_LEVEL,
                               !.attributes.level = @ + levels]
    IN IF levels > 0
       THEN [gained EXCEPT !.attributes.stats =
                 StatsAdd(@, scale_stats(self.species.stats, SCALING_FACTOR))]
       ELSE gained

\* Experience::gain_experience: the log it returns.
gain_experience_logs(self, amount) ==
    LET total == self.attributes.experience + amount
    IN << <<"Gained experience", amount>> >> \o
       (IF total \div EXPERIENCE_TO_LEVEL > 0
        THEN << <<"Stats increased by",
                  scale_stats(self.species.stats, SCALING_FACTOR)>> >>
        ELSE << >>)

(***************************************************************************)
(* Battle logic (onion.rs)                                                 *)
(***************************************************************************)
\* take_turn.  `draw` is the value of random::<u32>().  The result also
\* says whether action.act was called.
TurnResult(r, lines, acted) ==
    [user |-> r.user, target |-> r.target, logs |-> lines,
     panic |-> r.panic, acted |-> acted]

\* Mutant: a bleed that a Defend on the actor blocks.
take_turn_bleed_blocked(user, target, action, draw) ==
    LET r == act(action, user, target)
        hurt == [r.user EXCEPT !.state.health =
                     IF contains_key(r.user.state.status, "Defend") THEN @
                     ELSE Max(0, wrapping_sub(@, r.user.state.status["Bleed"]))]
        unstunned == [user EXCEPT !.state.status = remove(@, "Stun")]
        u == act(action, unstunned, target)
    IN IF contains_key(user.state.status, "Stun")
       THEN IF draw % (user.state.status["Stun"] + 1) = 0
            THEN TurnResult(u, << <<"is no longer stunned", user.name>> >> \o u.logs,
                            TRUE)
            ELSE TurnResult(ActResult(user, target, << >>, FALSE),
                            << <<"is stunned", user.name>> >>, FALSE)
       ELSE IF contains_key(user.state.status, "Bleed") /\ ~r.panic
       THEN TurnResult([r EXCEPT !.user = hurt],
                       r.logs \o << <<"was hurt by bleed", user.name>> >>, TRUE)
       ELSE TurnResult(r, r.logs, TRUE)

\* Mutant: a recovery that leaves the Stun status in place.
take_turn_stun_kept(user, target, action, draw) ==
    LET r == act(action, user, target)
        hurt == [r.user EXCEPT !.state.health =
                     Max(0, wrapping_sub(@, r.user.state.status["Bleed"]))]
    IN IF contains_key(user.state.status, "Stun")
       THEN IF draw % (user.state.status["Stun"] + 1) = 0
            THEN TurnResult(r, << <<"is no longer stunned", user.name>> >> \o r.logs,
                            TRUE)
            ELSE TurnResult(ActResult(user, target, << >>, FALSE),
                            << <<"is stunned", user.name>> >>, FALSE)
       ELSE IF contains_key(user.state.status, "Bleed") /\ ~r.panic
       THEN TurnResult([r EXCEPT !.user = hurt],
                       r.logs \o << <<"was hurt by bleed", user.name>> >>, TRUE)
       ELSE TurnResult(r, r.logs, TRUE)

\* Mutant: a bleed that mends the actor instead of hurting it.
take_turn_bleed_mends(user, target, action, draw) ==
    LET r == act(action, user, target)
        mended == [r.user EXCEPT !.state.health = @ + r.user.state.status["Bleed"]]
        unstunned == [user EXCEPT !.state.status = remove(@, "Stun")]
        u == act(action, unstunned, target)
    IN IF contains_key(user.state.status, "Stun")
       THEN IF draw % (user.state.status["Stun"] + 1) = 0
            THEN TurnResult(u, << <<"is no longer stunned", user.name>> >> \o u.logs,
                            TRUE)
            ELSE TurnResult(ActResult(user, target, << >>, FALSE),
                            << <<"is stunned", user.name>> >>, FALSE)
       ELSE IF contains_key(user.state.status, "Bleed") /\ ~r.panic
       THEN TurnResult([r EXCEPT !.user = mended],
                       r.logs \o << <<"was hurt by bleed", user.name>> >>, TRUE)
       ELSE TurnResult(r, r.logs, TRUE)

take_turn(user, target, action, draw) ==
    IF contains_key(user.state.status, "Stun")
    THEN IF draw % (user.state.status["Stun"] + 1) = 0
         THEN LET recovered == [user EXCEPT !.state.status = remove(@, "Stun")]
                  r == act(action, recovered, target)
              IN TurnResult(r, << <<"is no longer stunned", user.name>> >> \o r.logs,
                            TRUE)
         ELSE TurnResult(ActResult(user, target, << >>, FALSE),
                         << <<"is stunned", user.name>> >>, FALSE)
    ELSE IF contains_key(user.state.status, "Bleed")
    THEN LET r == act(action, user, target)
             hurt == [r.user EXCEPT !.state.health =
                          Max(0, wrapping_sub(@, r.user.state.status["Bleed"]))]
         IN IF r.panic THEN TurnResult(r, r.logs, TRUE)
            ELSE TurnResult([r EXCEPT !.user = hurt],
                            r.logs \o << <<"was hurt by bleed", user.name>> >>, TRUE)
    ELSE LET r == act(action, user, target) IN TurnResult(r, r.logs, TRUE)

\* Mutant: a clean_up that drops every status.
clean_up_all(character) == [character EXCEPT !.state.status = NoStatus]

\* Mutant: a clean_up that keeps the Defend status.
clean_up_kept(character) == character

\* clean_up
clean_up(character) ==
    IF contains_key(character.state.status, "Defend")
    THEN [character EXCEPT !.state.status = remove(@, "Defend")]
    ELSE character

\* Mutant: Victory checked before Defeat.
battle_state_victory_first(p, e) ==
    IF e.state.health = 0 THEN "Victory"
    ELSE IF p.state.health = 0 THEN "Defeat"
    ELSE "InProcess"

\* OnionBattle::battle_state
battle_state(p, e) ==
    IF p.state.health = 0 THEN "Defeat"
    ELSE IF e.state.health = 0 THEN "Victory"
    ELSE "InProcess"

\* What a call on the battle returns and does.
BattleResult(p, e, lines, panic, acted, state) ==
    [player |-> p, enemy |-> e, logs |-> lines, panic |-> panic,
     acted |-> acted, state |-> state]

\* Mutant: a player_turn that does not look at the battle state.
player_turn_unchecked(p, e, action, draw) ==
    LET t == take_turn(p, e, action, draw)
    IN BattleResult(t.user, t.target, t.logs, t.panic, t.acted, battle_state(p, e))

\* OnionBattle::player_turn
player_turn(p, e, action, draw) ==
    IF battle_state(p, e) = "InProcess"
    THEN LET t == take_turn(p, e, action, draw)
         IN BattleResult(t.user, t.target, t.logs, t.panic, t.acted, "InProcess")
    ELSE BattleResult(p, e, << >>, FALSE, FALSE, battle_state(p, e))

\* Mutant: an enemy_turn that does not look at the battle state.
enemy_turn_unchecked(p, e, action, draw) ==
    LET t == take_turn(e, p, action, draw)
    IN BattleResult(t.target, t.user, t.logs, t.panic, t.acted, battle_state(p, e))

\* OnionBattle::enemy_turn
enemy_turn(p, e, action, draw) ==
    IF battle_state(p, e) = "InProcess"
    THEN LET t == take_turn(e, p, action, draw)
         IN BattleResult(t.target, t.user, t.logs, t.panic, t.acted, "InProcess")
    ELSE BattleResult(p, e, << >>, FALSE, FALSE, battle_state(p, e))

\* Mutant: a Defeat that also awards the enemy's experience.
end_turn_defeat_rewarded(p, e) ==
    CASE battle_state(p, e) = "Victory" ->
           BattleResult(gain_experience(p, experience(e) \div Max(1, p.attributes.level)),
                        e, << <<"Defeated", e.name>> >>,
                        p.attributes.level = 0, FALSE, "Victory")
      [] battle_state(p, e) = "Defeat" ->
           BattleResult(gain_experience(p, experience(e)), e,
                        << <<"died", p.name>> >>, FALSE, FALSE, "Defeat")
      [] OTHER ->
           BattleResult(clean_up(p), clean_up(e), << >>, FALSE, FALSE, "InProcess")

\* Mutant: a reward that is not divided by the player's level.
end_turn_undivided(p, e) ==
    CASE battle_state(p, e) = "Victory" ->
           BattleResult(gain_experience(p, experience(e)), e,
                        << <<"Defeated", e.name>> >> \o
                            gain_experience_logs(p, experience(e)),
                        p.attributes.level = 0, FALSE, "Victory")
      [] battle_state(p, e) = "Defeat" ->
           BattleResult(p, e, << <<"died", p.name>> >>, FALSE, FALSE, "Defeat")
      [] OTHER ->
           BattleResult(clean_up(p), clean_up(e), << >>, FALSE, FALSE, "InProcess")

\* Mutant: a Defeat that puts the player back on its feet.
end_turn_defeat_revives(p, e) ==
    CASE battle_state(p, e) = "Victory" ->
           IF p.attributes.level = 0
           THEN BattleResult(p, e, << <<"Defeated", e.name>> >>, TRUE, FALSE, "Victory")
           ELSE BattleResult(gain_experience(p, experience(e) \div p.attributes.level),
                             e,
                             << <<"Defeated", e.name>> >> \o
                                 gain_experience_logs(p, experience(e)
                                                             \div p.attributes.level),
                             FALSE, FALSE, "Victory")
      [] battle_state(p, e) = "Defeat" ->
           BattleResult(refresh(p), e, << <<"died", p.name>> >>, FALSE, FALSE, "Defeat")
      [] OTHER ->
           BattleResult(clean_up(p), clean_up(e), << >>, FALSE, FALSE, "InProcess")

\* OnionBattle::end_turn.  The reward's division by a level of 0 panics.
end_turn(p, e) ==
    CASE battle_state(p, e) = "Victory" ->
           IF p.attributes.level = 0
           THEN BattleResult(p, e, << <<"Defeated", e.name>> >>, TRUE, FALSE, "Victory")
           ELSE LET reward == experience(e) \div p.attributes.level
                IN BattleResult(gain_experience(p, reward), e,
                                << <<"Defeated", e.name>> >> \o
                                    gain_experience_logs(p, reward),
                                FALSE, FALSE, "Victory")
      [] battle_state(p, e) = "Defeat" ->
           BattleResult(p, e, << <<"died", p.name>> >>, FALSE, FALSE, "Defeat")
      [] OTHER ->
           BattleResult(clean_up(p), clean_up(e), << >>, FALSE, FALSE, "InProcess")

(***************************************************************************)
(* Bounds and inputs                                                       *)
(***************************************************************************)
InitLevel == 1          \* the level of an initial engine character
LevelCap == 2           \* no reward is explored at or above this player level
MaxIntensity == 1       \* no Stun/Bleed is stacked above this intensity
MaxDraw == 1            \* random::<u32>() is drawn from 0..MaxDraw
FakeHealth == 4         \* health of fake_character_with_health

\* onion.rs testing::fake_species_with_bst.
fake_species_with_bst(bst) ==
    [name |-> "fake", bst |-> bst, stats |-> MakeStats(1, 1, 1, 1),
     alignment |-> "Rock"]
fake_species == fake_species_with_bst(0)

\* Two species as Distribution<Species<Alignment>> samples them: a bst in
\* 200..700, ratios that sum to 1 (here in 32nds), any alignment.
rock_species ==
    [name |-> "Rock Pawn", bst |-> 400, stats |-> MakeStats(1, 15, 8, 8),
     alignment |-> "Rock"]
paper_species ==
    [name |-> "Paper Rook", bst |-> 450, stats |-> MakeStats(1, 16, 15, 0),
     alignment |-> "Paper"]

\* OnionWorld::sample_at_level after the species and actions are drawn.
at_level(species, actions, level) ==
    LET character == gain_experience(from_species_and_actions(species, actions),
                                     level * EXPERIENCE_TO_LEVEL)
    IN refresh([character EXCEPT !.attributes.stats =
                    scale_stats(species.stats, level * SCALING_FACTOR)])

\* onion.rs action_tests::fake_character_with_health: level 0, defense 0.
fake_character_with_health(health) ==
    refresh([from_species(fake_species) EXCEPT !.attributes.stats.health = health])

EngineCharacters ==
    {at_level(sp, << >>, InitLevel) : sp \in {rock_species, paper_species}}
    \cup {fake_character_with_health(FakeHealth)}

\* The actions of the unit tests and of ActionPool::with_padding.
EngineActions ==
    {MakeAttack("fake", 11, "Scissors", 0), MakeAttack("Paper Slam", 120, "Paper", 0),
     MakePureAttack("fake", 5), MakeDefend("Block"), MakeBleed("Cut", 1),
     MakeStun("Yawn"), SKIP}

Intensity(character, k) ==
    IF contains_key(character.state.status, k) THEN character.state.status[k] ELSE 0

\* The cap on stacking: a Bleed or Stun is explored only below MaxIntensity.
WithinCap(action, target) ==
    /\ action.kind = "Bleed" => Intensity(target, "Bleed") + action.power <= MaxIntensity
    /\ action.kind = "Stun" => Intensity(target, "Stun") + 1 <= MaxIntensity

\* random::<u32>() is called only in the turn of a user that has Stun.
Draws(user) ==
    IF contains_key(user.state.status, "Stun") THEN 0..MaxDraw ELSE {0}

NoCall ==
    [op |-> "new", action |-> SKIP, acted |-> FALSE, state |-> "InProcess",
     draw |-> 0, cleaned |-> FALSE]
NoFn == [op |-> "none"]

(***************************************************************************)
(* The battle engine driven by any caller: Spec                            *)
(***************************************************************************)
Init ==
    /\ scene = "Battle"
    /\ player \in EngineCharacters
    /\ enemy \in EngineCharacters
    /\ logs = << >>
    /\ last = NoCall
    /\ panicked = FALSE
    /\ fn = NoFn

\* The effect of a call that returned r.  `last` records the call: its
\* action, the value random::<u32>() gave it, whether action.act ran, the
\* battle state it saw or returned, and whether it dropped a Defend.
Returned(r, op, action, draw) ==
    /\ player' = r.player
    /\ enemy' = r.enemy
    /\ logs' = r.logs
    /\ panicked' = r.panic
    /\ last' = [op |-> op, action |-> action, acted |-> r.acted, state |-> r.state,
                draw |-> draw,
                cleaned |-> \E c \in {player, enemy} :
                                /\ contains_key(c.state.status, "Defend")
                                /\ \A d \in {r.player, r.enemy} :
                                       ~contains_key(d.state.status, "Defend")]
    /\ UNCHANGED <<scene, fn>>

PlayerTurn ==
    \E action \in EngineActions, draw \in Draws(player) :
        /\ ~panicked
        /\ WithinCap(action, enemy)
        /\ Returned(player_turn(player, enemy, action, draw), "player_turn", action, draw)

EnemyTurn ==
    \E action \in EngineActions, draw \in Draws(enemy) :
        /\ ~panicked
        /\ WithinCap(action, player)
        /\ Returned(enemy_turn(player, enemy, action, draw), "enemy_turn", action, draw)

EndTurn ==
    /\ ~panicked
    /\ player.attributes.level < LevelCap
    /\ Returned(end_turn(player, enemy), "end_turn", SKIP, 0)

\* The caller refreshes one of the two characters.
RefreshPlayer ==
    /\ ~panicked
    /\ Returned(BattleResult(refresh(player), enemy, << >>, FALSE, FALSE,
                             battle_state(refresh(player), enemy)),
                "refresh", SKIP, 0)

RefreshEnemy ==
    /\ ~panicked
    /\ Returned(BattleResult(player, refresh(enemy), << >>, FALSE, FALSE,
                             battle_state(player, refresh(enemy))),
                "refresh", SKIP, 0)

Next == PlayerTurn \/ EnemyTurn \/ EndTurn \/ RefreshPlayer \/ RefreshEnemy

Spec == Init /\ [][Next]_vars

(***************************************************************************)
(* deal_damage as a function of its inputs: SpecDamage                     *)
(***************************************************************************)
MaxDamageHealth == 5    \* deal_damage is tried on healths 0..MaxDamageHealth
MaxDamage == 7          \* and on damages 0..MaxDamage, besides the u32 edges

\* The edges of the u32 range: i32::MAX, i32::MAX + 1, u32::MAX - 1, u32::MAX.
U32Edges ==
    {[hi |-> Half \div 2 - 1, lo |-> Half - 1], [hi |-> Half \div 2, lo |-> 0],
     [hi |-> Half - 1, lo |-> Half - 2], [hi |-> Half - 1, lo |-> Half - 1]}

DamageInputs == {ToU32(n) : n \in 0..MaxDamage} \cup U32Edges
HealthInputs == 0..MaxDamageHealth

InitDamage ==
    /\ scene = "None"
    /\ player = fake_character_with_health(0)
    /\ enemy = fake_character_with_health(0)
    /\ logs = << >>
    /\ last = NoCall
    /\ panicked = FALSE
    /\ \E h \in HealthInputs, d \in DamageInputs :
           fn = [op |-> "input", health |-> h, damage |-> d, out |-> 0]

\* character.deal_damage(damage) of onion.rs on a character with fn.health.
\* Where the i32 subtraction overflows, a build with overflow checks panics
\* and a build without them wraps.
DealDamage ==
    /\ fn.op = "input"
    /\ ~deal_damage_overflows(fn.health, fn.damage)
    /\ fn' = [fn EXCEPT !.op = "deal_damage",
                        !.out = deal_damage(fake_character_with_health(fn.health),
                                            fn.damage).state.health]
    /\ UNCHANGED <<scene, player, enemy, logs, last, panicked>>

DealDamageWraps ==
    /\ fn.op = "input"
    /\ deal_damage_overflows(fn.health, fn.damage)
    /\ fn' = [fn EXCEPT !.op = "deal_damage",
                        !.out = deal_damage(fake_character_with_health(fn.health),
                                            fn.damage).state.health]
    /\ UNCHANGED <<scene, player, enemy, logs, last, panicked>>

DealDamagePanics ==
    /\ fn.op = "input"
    /\ deal_damage_overflows(fn.health, fn.damage)
    /\ fn' = [fn EXCEPT !.op = "deal_damage panic"]
    /\ panicked' = TRUE
    /\ UNCHANGED <<scene, player, enemy, logs, last>>

\* character.deal_damage(damage) of kaizo.rs, whose damage is an i32.
KaizoDealDamage ==
    /\ fn.op = "input"
    /\ U32Fits(fn.damage)
    /\ fn' = [fn EXCEPT !.op = "kaizo deal_damage",
                        !.out = kaizo_deal_damage_health(fn.health, U32Val(fn.damage))]
    /\ UNCHANGED <<scene, player, enemy, logs, last, panicked>>

NextDamage == DealDamage \/ DealDamageWraps \/ DealDamagePanics \/ KaizoDealDamage

SpecDamage == InitDamage /\ [][NextDamage]_vars

\* max(0, h - d) for a health h >= 0 and a u32 d: a d above i32::MAX is above h.
ClampedDifference(h, d) == IF U32Fits(d) THEN Max(0, h - U32Val(d)) ELSE 0

\* C1: for every health h >= 0 and every damage d >= 0, the health after
\* deal_damage(d) is exactly max(0, h - d).  The onion.rs deal_damage breaks
\* this for a damage above i32::MAX, which `damage as i32` turns negative.
C1_DealDamageClamps ==
    fn.op \in {"deal_damage", "kaizo deal_damage"}
        => fn.out = ClampedDifference(fn.health, fn.damage)

(***************************************************************************)
(* Properties of the battle engine (under Spec)                            *)
(***************************************************************************)
Turns == {"player_turn", "enemy_turn"}

HasLine(lines, text) == \E i \in 1..Len(lines) : lines[i][1] = text

BothZero == player.state.health = 0 /\ enemy.state.health = 0

\* C2: each character's current health h satisfies 0 <= h <= its realized
\* max health, in every state reached from refreshed characters by turns,
\* end_turn (with the Victory reward) and refresh.
C2_HealthInRange ==
    \A c \in {player, enemy} :
        0 <= c.state.health /\ c.state.health <= c.attributes.stats.health

\* A player that a Victory reward has levelled up, back in a battle and hurt.
C2_Witness ==
    /\ player.attributes.level > InitLevel
    /\ last.op \in Turns /\ last.acted
    /\ 0 < player.state.health
    /\ player.state.health < player.attributes.stats.health

\* C3 as stated: from a battle with both healths positive, no sequence of
\* turns and end_turn calls reaches both healths 0.
C3_NeverBothZero == ~BothZero

\* C3 as amended: both healths become 0 only by the turn of a living
\* character that has Bleed, whose action takes the living opponent to 0 and
\* whose own bleed then takes it to 0.
C3_BothZeroOnlyByBleed ==
    [][(BothZero' /\ ~BothZero) =>
          /\ last'.op \in Turns /\ last'.acted
          /\ player.state.health > 0 /\ enemy.state.health > 0
          /\ LET user == IF last'.op = "player_turn" THEN player ELSE enemy
             IN /\ contains_key(user.state.status, "Bleed")
                /\ user.state.status["Bleed"] >= user.state.health]_vars

C3_Witness ==
    /\ BothZero
    /\ last.op = "player_turn" /\ last.acted
    /\ contains_key(player.state.status, "Bleed")
    /\ HasLine(logs, "was hurt by bleed")

\* C4: the battle status is a function of the two current healths with
\* Defeat checked first: what end_turn returns is Defeat when the player's
\* health is 0 (also when the enemy's is 0 too), otherwise Victory when the
\* enemy's health is 0, otherwise InProgress.
C4_StatusFromHealths ==
    (last.op = "end_turn" /\ ~panicked) =>
        last.state = IF player.state.health = 0 THEN "Defeat"
                     ELSE IF enemy.state.health = 0 THEN "Victory"
                     ELSE "InProcess"

C4_Witness ==
    last.op = "end_turn" /\ BothZero /\ last.state = "Defeat" /\ HasLine(logs, "died")

\* C5: when the battle status is not InProgress, player_turn and enemy_turn
\* return an empty log, do not run the action and change neither character.
C5_FinishedTurnIsNoOp ==
    [][(last'.op \in Turns /\ battle_state(player, enemy) # "InProcess") =>
          /\ player' = player
          /\ enemy' = enemy
          /\ Len(logs') = 0
          /\ ~last'.acted]_vars

\* The enemy's turn after the player, moving first, has taken it to 0.
C5_Witness ==
    /\ last.op = "enemy_turn" /\ last.action.kind = "PureAttack"
    /\ last.state = "Victory"
    /\ enemy.state.health = 0
    /\ player.state.health = player.attributes.stats.health
    /\ Len(logs) = 0 /\ ~last.acted

\* C6: the turn engine has no fatal outcome: player_turn, enemy_turn and
\* end_turn complete and return a log for every pair of characters and every
\* action.  The code panics on a division by zero instead.
C6_NoPanic == ~panicked

\* C8: an Attack or a PureAttack applied to a target with an active Defend
\* leaves every field of the target unchanged.
C8_DefendBlocks ==
    [][(last'.op \in Turns /\ last'.acted
            /\ last'.action.kind \in {"Attack", "PureAttack"}) =>
          /\ (last'.op = "player_turn" /\ contains_key(enemy.state.status, "Defend"))
                 => enemy' = enemy
          /\ (last'.op = "enemy_turn" /\ contains_key(player.state.status, "Defend"))
                 => player' = player]_vars

C8_Witness ==
    /\ last.op = "player_turn" /\ last.acted /\ last.action.kind = "Attack"
    /\ contains_key(enemy.state.status, "Defend")
    /\ enemy.attributes.stats.defense > 0
    /\ HasLine(logs, "blocked")

\* C9: Bleed applied to a target that has Stun, and Stun applied to a target
\* that has Bleed, leave the target (its status map and its health) unchanged
\* and return a log with the failure line.
C9_ExclusiveDebuffFails ==
    [][(last'.op \in Turns /\ last'.acted) =>
          LET target == IF last'.op = "player_turn" THEN enemy ELSE player
              target_after == IF last'.op = "player_turn" THEN enemy' ELSE player'
          IN /\ (last'.action.kind = "Bleed" /\ contains_key(target.state.status, "Stun"))
                    => (target_after = target /\ HasLine(logs', "But is stunned"))
             /\ (last'.action.kind = "Stun" /\ contains_key(target.state.status, "Bleed"))
                    => (target_after = target /\ HasLine(logs', "But is poisoned"))]_vars

C9_Witness ==
    /\ last.op = "player_turn" /\ last.acted /\ last.action.kind = "Stun"
    /\ contains_key(enemy.state.status, "Bleed")
    /\ ~contains_key(enemy.state.status, "Stun")
    /\ HasLine(logs, "But is poisoned")

\* C10: no character has the Stun and the Bleed status at the same time.
C10_StunBleedExclusive ==
    \A c \in {player, enemy} :
        ~(contains_key(c.state.status, "Stun") /\ contains_key(c.state.status, "Bleed"))

\* A Bleed that has just failed on a stunned player.
C10_Witness ==
    /\ last.op = "enemy_turn" /\ last.acted /\ last.action.kind = "Bleed"
    /\ contains_key(player.state.status, "Stun")
    /\ ~contains_key(player.state.status, "Bleed")
    /\ contains_key(enemy.state.status, "Bleed")

\* The acting character and its opponent in a turn call.
Actor(op, p, e) == IF op = "player_turn" THEN p ELSE e
Opponent(op, p, e) == IF op = "player_turn" THEN e ELSE p

\* C11: when the acting character has Stun with intensity n, the draw r is
\* taken mod (n + 1): if that is 0 the Stun is removed and the action is
\* applied exactly as in the turn of the same user without Stun; otherwise
\* the action is not applied and neither character changes (Stun stays n).
C11_StunWrapper ==
    [][(/\ last'.op \in Turns
        /\ battle_state(player, enemy) = "InProcess"
        /\ contains_key(Actor(last'.op, player, enemy).state.status, "Stun")) =>
          LET user == Actor(last'.op, player, enemy)
              target == Opponent(last'.op, player, enemy)
              n == user.state.status["Stun"]
              unstunned == [user EXCEPT !.state.status = remove(@, "Stun")]
              t == take_turn(unstunned, target, last'.action, last'.draw)
          IN IF last'.draw % (n + 1) = 0
             THEN /\ Actor(last'.op, player', enemy') = t.user
                  /\ Opponent(last'.op, player', enemy') = t.target
                  /\ panicked' = t.panic
                  /\ last'.acted
                  /\ ~contains_key(Actor(last'.op, player', enemy').state.status, "Stun")
             ELSE /\ player' = player
                  /\ enemy' = enemy
                  /\ ~last'.acted
                  /\ Intensity(Actor(last'.op, player', enemy'), "Stun") = n]_vars

\* A stunned player whose draw let it recover and hit with an Attack.
C11_Witness ==
    /\ last.op = "player_turn" /\ last.acted /\ last.action.kind = "Attack"
    /\ HasLine(logs, "is no longer stunned")
    /\ ~contains_key(player.state.status, "Stun")
    /\ enemy.attributes.stats.defense > 0
    /\ enemy.state.health < enemy.attributes.stats.health

\* C12: when the acting character has Bleed with intensity n and no Stun,
\* the action is applied first and then the actor's health becomes
\* max(0, health - n), whether or not the actor has Defend and also when the
\* action has just taken the opponent to 0 health.
C12_BleedWrapper ==
    [][(/\ last'.op \in Turns
        /\ battle_state(player, enemy) = "InProcess"
        /\ contains_key(Actor(last'.op, player, enemy).state.status, "Bleed")
        /\ ~contains_key(Actor(last'.op, player, enemy).state.status, "Stun")) =>
          LET user == Actor(last'.op, player, enemy)
              target == Opponent(last'.op, player, enemy)
              n == user.state.status["Bleed"]
              r == act(last'.action, user, target)
          IN /\ last'.acted
             /\ panicked' = r.panic
             /\ ~r.panic =>
                  /\ Opponent(last'.op, player', enemy') = r.target
                  /\ Actor(last'.op, player', enemy') =
                         [r.user EXCEPT !.state.health = Max(0, @ - n)]
                  /\ HasLine(logs', "was hurt by bleed")]_vars

\* A bleeding, defending player whose action took the enemy to 0 and that
\* then lost health to its bleed.
C12_Witness ==
    /\ last.op = "player_turn" /\ last.acted
    /\ contains_key(player.state.status, "Bleed")
    /\ contains_key(player.state.status, "Defend")
    /\ enemy.state.health = 0
    /\ enemy.attributes.stats.health > 0
    /\ HasLine(logs, "was hurt by bleed")
    /\ 0 < player.state.health
    /\ player.state.health < player.attributes.stats.health

\* C13: Defend does not persist across rounds: whenever end_turn returns
\* InProgress, neither character has a Defend status afterwards.
C13_DefendDropped ==
    (last.op = "end_turn" /\ last.state = "InProcess" /\ ~panicked) =>
        \A c \in {player, enemy} : ~contains_key(c.state.status, "Defend")

\* An end_turn that returned InProgress and dropped a Defend.
C13_Witness ==
    /\ last.op = "end_turn" /\ last.state = "InProcess" /\ last.cleaned
    /\ player.state.health > 0 /\ enemy.state.health > 0

\* The entry of status k is the same in the maps of c and d.
SameEntry(c, d, k) ==
    /\ contains_key(c.state.status, k) = contains_key(d.state.status, k)
    /\ Intensity(c, k) = Intensity(d, k)

\* C14: Stun and Bleed persist until their own resolution removes them:
\* end_turn changes no Stun or Bleed entry; a Stun entry is lowered or removed
\* only by a recovery draw (draw mod (n + 1) = 0) on its bearer's own turn,
\* which removes it; in turns and end_turn a Bleed intensity never decreases
\* and a Bleed entry is never removed.
C14_DebuffsPersist ==
    [][(last'.op \in Turns \cup {"end_turn"}) =>
          /\ last'.op = "end_turn" =>
                 /\ SameEntry(player, player', "Stun") /\ SameEntry(player, player', "Bleed")
                 /\ SameEntry(enemy, enemy', "Stun") /\ SameEntry(enemy, enemy', "Bleed")
          /\ \A who \in Turns :
                 LET c == Actor(who, player, enemy)
                     d == Actor(who, player', enemy')
                 IN /\ Intensity(d, "Stun") < Intensity(c, "Stun")
                        => /\ last'.op = who
                           /\ last'.draw % (c.state.status["Stun"] + 1) = 0
                           /\ ~contains_key(d.state.status, "Stun")
                    /\ contains_key(c.state.status, "Bleed")
                        => /\ contains_key(d.state.status, "Bleed")
                           /\ d.state.status["Bleed"] >= c.state.status["Bleed"]]_vars

\* An end_turn that returned InProgress with a stunned player and a bleeding
\* enemy, both kept.
C14_Witness ==
    /\ last.op = "end_turn" /\ last.state = "InProcess" /\ last.cleaned
    /\ contains_key(player.state.status, "Stun")
    /\ contains_key(enemy.state.status, "Bleed")

\* The attributes (level, experience, realized stats, known actions), name,
\* species and current alignment of c are those of d.
SameProgression(c, d) ==
    /\ c.attributes = d.attributes
    /\ c.species = d.species
    /\ c.name = d.name
    /\ c.state.alignment = d.state.alignment

\* C16: attributes, species and current alignment of both characters are
\* unchanged by every player_turn and enemy_turn and by end_turn when it
\* returns InProgress or Defeat; end_turn on Victory changes only the
\* player's attributes.
C16_ProgressionFrame ==
    [][(last'.op \in Turns \cup {"end_turn"}) =>
          /\ SameProgression(enemy, enemy')
          /\ player'.species = player.species
          /\ player'.state.alignment = player.state.alignment
          /\ (last'.op \in Turns \/ last'.state \in {"InProcess", "Defeat"})
                 => SameProgression(player, player')]_vars

\* An end_turn that returned Defeat for a player beaten by an enemy worth
\* experience: the player's level and experience are as they were.
C16_Witness ==
    /\ last.op = "end_turn" /\ last.state = "Defeat"
    /\ HasLine(logs, "died")
    /\ player.state.health = 0
    /\ experience(enemy) > 0
    /\ player.attributes.level = InitLevel
    /\ player.attributes.experience = 0

(***************************************************************************)
(* end_turn on won battles of players of several levels: SpecReward        *)
(***************************************************************************)
MaxRewardLevel == 3     \* the players and enemies have levels up to this

\* Players of levels 1..MaxRewardLevel at the start and the end of the
\* experience range, with no status or bleeding behind a Defend.
RewardPlayers ==
    {[at_level(sp, << >>, level) EXCEPT !.attributes.experience = x,
                                        !.state.status = st] :
        sp \in {rock_species, paper_species}, level \in 1..MaxRewardLevel,
        x \in {0, EXPERIENCE_TO_LEVEL - 1},
        st \in {NoStatus,
                 or_insert(and_modify_add(or_insert(NoStatus, "Bleed"), "Bleed", 1),
                           "Defend")}}

\* Beaten enemies of levels 0..MaxRewardLevel.
RewardEnemies ==
    {[at_level(sp, << >>, level) EXCEPT !.state.health = 0] :
        sp \in {rock_species, paper_species}, level \in 0..MaxRewardLevel}

InitReward ==
    /\ scene = "Battle"
    /\ player \in RewardPlayers
    /\ enemy \in RewardEnemies
    /\ logs = << >>
    /\ last = NoCall
    /\ panicked = FALSE
    /\ fn = NoFn

\* battle.end_turn() on the won battle, as often as the caller calls it.
RewardEndTurn ==
    /\ ~panicked
    /\ player.attributes.level <= MaxRewardLevel
    /\ Returned(end_turn(player, enemy), "end_turn", SKIP, 0)

NextReward == RewardEndTurn

SpecReward == InitReward /\ [][NextReward]_vars

\* C15: end_turn on Victory awards the player exactly
\* floor(experience(enemy) / player.level) experience through
\* gain_experience, with the level the player had before the award, and
\* returns Victory; the enemy and both characters' health and statuses are
\* unchanged.
C15_VictoryReward ==
    [][(last'.op = "end_turn" /\ battle_state(player, enemy) = "Victory") =>
          LET level == player.attributes.level
              reward == experience(enemy) \div level
          IN /\ ~panicked'
             /\ last'.state = "Victory"
             /\ player' = gain_experience(player, reward)
             /\ EXPERIENCE_TO_LEVEL * player'.attributes.level
                    + player'.attributes.experience
                  = EXPERIENCE_TO_LEVEL * level + player.attributes.experience + reward
             /\ player'.state = player.state
             /\ enemy' = enemy
             /\ logs'[2] = <<"Gained experience", reward>>]_vars

\* A level 2 player with 99 experience rewarded for a level 2 enemy of bst
\* 400: experience 206, reward 103, so two levels gained and 2 left over,
\* with its bleed and Defend kept.
C15_Witness ==
    /\ last.op = "end_turn" /\ last.state = "Victory"
    /\ enemy.attributes.level = 2 /\ experience(enemy) = 206
    /\ player.attributes.level = 4
    /\ player.attributes.experience = 2
    /\ logs[2] = <<"Gained experience", 103>>
    /\ contains_key(player.state.status, "Defend")
    /\ contains_key(player.state.status, "Bleed")

(***************************************************************************)
(* gain_experience called any number of times: SpecExperience              *)
(***************************************************************************)
MaxCalls == 4           \* gain_experience is called at most this often

\* The amounts of gain_experience_test, and 0.
ExperienceAmounts == {0, 1, 99, 100, 234}

\* Fresh characters: testing::fake_character and one of a sampled species.
FreshCharacters == {from_species(fake_species), from_species(rock_species)}

RECURSIVE SumOf(_)
SumOf(amounts) ==
    IF Len(amounts) = 0 THEN 0 ELSE amounts[1] + SumOf(Tail(amounts))

InitExperience ==
    /\ scene = "None"
    /\ player \in FreshCharacters
    /\ enemy = from_species(fake_species)
    /\ logs = << >>
    /\ last = NoCall
    /\ panicked = FALSE
    /\ fn = [op |-> "gain_experience", amounts |-> << >>]

\* character.gain_experience(amount); fn.amounts lists the amounts so far.
GainExperience ==
    /\ Len(fn.amounts) < MaxCalls
    /\ \E amount \in ExperienceAmounts :
          /\ player' = gain_experience(player, amount)
          /\ logs' = gain_experience_logs(player, amount)
          /\ fn' = [fn EXCEPT !.amounts = Append(@, amount)]
    /\ last' = [NoCall EXCEPT !.op = "gain_experience"]
    /\ UNCHANGED <<scene, enemy, panicked>>

NextExperience == GainExperience

SpecExperience == InitExperience /\ [][NextExperience]_vars

\* C17: gain_experience(amount) sets experience to (old + amount) mod 100
\* and raises the level by floor((old + amount) / 100); so after any calls
\* experience is in 0..99, the level never decreases and 100 * level +
\* experience is the sum of the amounts given to a fresh character; the
\* amounts 1, 100, 99, 234 give experience 1, 1, 0, 34.
C17_ExperienceArithmetic ==
    /\ [](/\ player.attributes.experience \in 0..(EXPERIENCE_TO_LEVEL - 1)
          /\ EXPERIENCE_TO_LEVEL * player.attributes.level
                 + player.attributes.experience = SumOf(fn.amounts)
          /\ fn.amounts = <<1>> => player.attributes.experience = 1
          /\ fn.amounts = <<1, 100>> => player.attributes.experience = 1
          /\ fn.amounts = <<1, 100, 99>> => player.attributes.experience = 0
          /\ fn.amounts = <<1, 100, 99, 234>> => player.attributes.experience = 34)
    /\ [][LET amount == fn'.amounts[Len(fn'.amounts)]
               total == player.attributes.experience + amount
           IN /\ player'.attributes.experience = total % EXPERIENCE_TO_LEVEL
              /\ player'.attributes.level =
                     player.attributes.level + total \div EXPERIENCE_TO_LEVEL
              /\ player'.attributes.level >= player.attributes.level]_vars

\* The test's four calls made: experience 34 at level 4.
C17_Witness ==
    /\ fn.amounts = <<1, 100, 99, 234>>
    /\ player.attributes.experience = 34
    /\ player.attributes.level = 4

\* C18: gain_experience grows the realized stats by exactly one increment
\* species.stats.scale(SCALING_FACTOR) when the call gains at least one level,
\* however many levels it gains, and leaves them unchanged when it gains none.
C18_OneIncrementPerCall ==
    [][LET amount == fn'.amounts[Len(fn'.amounts)]
           levels == (player.attributes.experience + amount) \div EXPERIENCE_TO_LEVEL
           increment == scale_stats(player.species.stats, SCALING_FACTOR)
       IN /\ levels > 0 =>
                player'.attributes.stats = StatsAdd(player.attributes.stats, increment)
          /\ levels = 0 => player'.attributes.stats = player.attributes.stats]_vars

\* A third call that gained three levels at once (99 + 234) and added one
\* increment to the one of the first call.
C18_Witness ==
    /\ fn.amounts = <<100, 99, 234>>
    /\ player.attributes.level = 4
    /\ player.species = rock_species
    /\ player.attributes.stats = MakeStats(6, 92, 50, 50)

(***************************************************************************)
(* Stats<f64>::scale as a function of its inputs: SpecScale                *)
(***************************************************************************)
MaxWeight == 2          \* each ratio is a weight in 0..MaxWeight
MaxTotal == 4           \* scale is tried on totals 0..MaxTotal and the tests'

\* Ratio vectors with a positive sum; (1, 1, 1, 1) is testing::fake_stats.
ScaleRatios ==
    {stats \in [health : 0..MaxWeight, attack : 0..MaxWeight,
                 defense : 0..MaxWeight, speed : 0..MaxWeight] : StatsSum(stats) > 0}

\* The totals: small ones and those of scale_stats_test.
ScaleTotals == 0..MaxTotal \cup {100, 2243}

InitScale ==
    /\ scene = "None"
    /\ player = from_species(fake_species)
    /\ enemy = from_species(fake_species)
    /\ logs = << >>
    /\ last = NoCall
    /\ panicked = FALSE
    /\ \E stats \in ScaleRatios, total \in ScaleTotals :
           fn = [op |-> "input", stats |-> stats, total |-> total, out |-> StatsZero]

\* stats.scale(total)
Scale ==
    /\ fn.op = "input"
    /\ fn' = [fn EXCEPT !.op = "scale", !.out = scale_stats(fn.stats, fn.total)]
    /\ UNCHANGED <<scene, player, enemy, logs, last, panicked>>

NextScale == Scale

SpecScale == InitScale /\ [][NextScale]_vars

\* C20: for every non-negative total and every non-negative ratio vector
\* with a positive sum, the four components that Stats<f64>::scale(total)
\* returns sum to exactly total.  The code truncates each component and adds
\* nothing back, so the sum falls short: the test's 0.25 ratios with total
\* 2243 give 4 * 560 = 2240.
C20_ScaleSumsToTotal ==
    fn.op = "scale" => StatsSum(fn.out) = fn.total

(***************************************************************************)
(* The action pool and the world (onion.rs)                                *)
(***************************************************************************)
\* ActionPool::with_padding
with_padding(attack, padding) ==
    [attack |-> attack,
     pure_attack |-> <<MakePureAttack("Burst", 20), MakePureAttack("Blast", 40)>>,
     defend |-> <<MakeDefend("Block"), MakeDefend("Dodge")>>,
     bleed |-> <<MakeBleed("Cut", 1), MakeBleed("Slice", 1)>>,
     stun |-> <<MakeStun("Lullabye"), MakeStun("Paralyze"), MakeStun("Yawn")>>,
     padding |-> padding]

\* ActionPool::len
pool_len(pool) ==
    Len(pool.attack) + Len(pool.pure_attack) + Len(pool.defend)
        + Len(pool.bleed) + Len(pool.stun)

\* Mutant: an index that does not take the lists before off the id.
index_no_offset(pool, action) ==
    IF action < Len(pool.attack) THEN pool.attack[action + 1]
    ELSE IF action < Len(pool.pure_attack) THEN pool.pure_attack[action + 1]
    ELSE IF action < Len(pool.defend) THEN pool.defend[action + 1]
    ELSE IF action < Len(pool.bleed) THEN pool.bleed[action + 1]
    ELSE IF action < Len(pool.stun) THEN pool.stun[action + 1]
    ELSE SKIP

\* Index<ActionId> for ActionPool::index.  Ids count from 0.
index(pool, action) ==
    LET id1 == action
        id2 == id1 - Len(pool.attack)
        id3 == id2 - Len(pool.pure_attack)
        id4 == id3 - Len(pool.defend)
        id5 == id4 - Len(pool.bleed)
    IN IF id1 < Len(pool.attack) THEN pool.attack[id1 + 1]
       ELSE IF id2 < Len(pool.pure_attack) THEN pool.pure_attack[id2 + 1]
       ELSE IF id3 < Len(pool.defend) THEN pool.defend[id3 + 1]
       ELSE IF id4 < Len(pool.bleed) THEN pool.bleed[id4 + 1]
       ELSE IF id5 < Len(pool.stun) THEN pool.stun[id5 + 1]
       ELSE SKIP

\* Distribution<ActionPool> for Standard: a padding in 0..20 and 20 * 3 -
\* padding sampled attacks, each with a power in 10..150, any alignment and
\* the priority that Distribution<Attack> computes, which is 0.
WorldPadding == 20 - 1
WorldAttacks == 20 * 3 - WorldPadding

world_actions ==
    with_padding([i \in 1..WorldAttacks |->
                      IF i % 2 = 1 THEN MakeAttack("Rock Punch", 100, "Rock", 0)
                      ELSE MakeAttack("Paper Kick", 60, "Paper", 0)],
                 WorldPadding)

\* A species whose defense ratio is below 1/100: Stats<f64>::scale truncates
\* its defense to 0 at level 1, as Distribution<Stats<f64>>::sample can give.
scissors_species ==
    [name |-> "Scissors Bishop", bst |-> 400, stats |-> MakeStats(1, 27, 0, 4),
     alignment |-> "Scissors"]

\* Distribution<OnionCharacter> for OnionWorld::sample: a species of the
\* world with four ids drawn from 0..(len + padding).  Three of the
\* characters it can return: the first has an attack, a pure attack, a
\* defend and a bleed; the second an attack, a stun, a defend and an id of
\* the padding; the third, of defense 0, a bleed and three ids of the padding.
world_sample ==
    LET a == Len(world_actions.attack)
    IN {from_species_and_actions(rock_species, <<0, a, a + 2, a + 4>>),
        from_species_and_actions(paper_species,
                                 <<1, a + 6, a + 3, pool_len(world_actions)>>),
        from_species_and_actions(scissors_species,
                                 <<a + 5, pool_len(world_actions),
                                   pool_len(world_actions) + 1,
                                   pool_len(world_actions) + 2>>)}

\* Mutant: a level set-up that scales the stats by the level alone.
sample_at_level_by_level(character, level) ==
    LET levelled == gain_experience(character, level * EXPERIENCE_TO_LEVEL)
    IN refresh([levelled EXCEPT !.attributes.stats =
                    scale_stats(character.species.stats, level)])

\* Mutant: an enemy that is always set up at level 1.
sample_at_level_first_level(character, level) ==
    at_level(character.species, character.attributes.actions, 1)

\* OnionWorld::sample_at_level for a sampled character.
sample_at_level(character, level) ==
    at_level(character.species, character.attributes.actions, level)

(***************************************************************************)
(* The application (main.rs): SpecApp                                      *)
(***************************************************************************)
AppLevelCap == 3        \* no battle is started at or above this player level

\* Scene::Menu holds no enemy.
NoCharacter == from_species(fake_species)

\* Mutant: a new character that gains no experience.
create_character_unlevelled(character) ==
    refresh([character EXCEPT !.attributes.stats =
                 scale_stats(character.species.stats, EXPERIENCE_TO_LEVEL)])

\* App::create (lines 183-186) and the re-roll of App::update (246-249).
create_character(character) ==
    LET levelled == gain_experience(character, EXPERIENCE_TO_LEVEL)
    IN refresh([levelled EXCEPT !.attributes.stats =
                    scale_stats(character.species.stats, EXPERIENCE_TO_LEVEL)])

\* App::update, lines 215-223: does the player move first?
player_first(player_action, enemy_action, p, e, coin) ==
    IF action_priority(player_action) > action_priority(enemy_action) THEN TRUE
    ELSE IF /\ action_priority(player_action) = action_priority(enemy_action)
            /\ \/ character_priority(p) > character_priority(e)
               \/ (character_priority(p) = character_priority(e) /\ coin)
         THEN TRUE
    ELSE FALSE

\* random::<bool>() is called only when priorities and speeds are equal.
Coins(player_action, enemy_action, p, e) ==
    IF /\ action_priority(player_action) = action_priority(enemy_action)
       /\ character_priority(p) = character_priority(e)
    THEN BOOLEAN ELSE {FALSE}

\* A character draws in the round only if it has Stun when its turn comes:
\* it had Stun before the round or the opponent's action is a Stun.
RoundDraws(user, opponent_action) ==
    IF contains_key(user.state.status, "Stun") \/ opponent_action.kind = "Stun"
    THEN 0..MaxDraw ELSE {0}

\* App::update, lines 225-233: the two turns in order, then end_turn.  A
\* panic ends the round where it happens.
RoundResult(r, lines, first, ended, calls, applied, mid) ==
    [player |-> r.player, enemy |-> r.enemy, logs |-> lines, panic |-> r.panic,
     state |-> r.state, first |-> first, ended |-> ended, calls |-> calls,
     applied |-> applied, mid |-> mid]

\* The two turns in the order of lines 225-231.
TurnOrder(first) ==
    IF first THEN <<"player_turn", "enemy_turn">> ELSE <<"enemy_turn", "player_turn">>

\* The player's and the enemy's health in what a call returned.
Healths(r) == <<r.player.state.health, r.enemy.state.health>>

\* The outcome of the round from its three calls; `applied` says of each
\* turn, in the order of the calls, whether it ran its action, and `mid`
\* gives the two healths between the two turns.  A call that panics returns
\* nothing, so self.logs.extend(..) adds no line for it.
round_result(first, t1, t2, t3) ==
    IF t1.panic
    THEN RoundResult(t1, << >>, first, FALSE, SubSeq(TurnOrder(first), 1, 1),
                     <<t1.acted>>, Healths(t1))
    ELSE IF t2.panic
    THEN RoundResult(t2, t1.logs, first, FALSE, TurnOrder(first),
                     <<t1.acted, t2.acted>>, Healths(t1))
    ELSE RoundResult(t3,
                     IF t3.panic THEN t1.logs \o t2.logs
                     ELSE t1.logs \o t2.logs \o t3.logs,
                     first, ~t3.panic,
                     Append(TurnOrder(first), "end_turn"), <<t1.acted, t2.acted>>,
                     Healths(t1))

\* Line 233: battle.end_turn() after the two turns.
round_end(first, t1, t2) ==
    round_result(first, t1, t2, end_turn(t2.player, t2.enemy))

\* Lines 227 and 230: the second turn, on the battle the first turn left.
round_second(first, t1, player_action, enemy_action, player_draw, enemy_draw) ==
    round_end(first, t1,
              IF first THEN enemy_turn(t1.player, t1.enemy, enemy_action, enemy_draw)
              ELSE player_turn(t1.player, t1.enemy, player_action, player_draw))

\* Lines 226 and 229: the first turn.
round_first(first, p, e, player_action, enemy_action, player_draw, enemy_draw) ==
    round_second(first,
                 IF first THEN player_turn(p, e, player_action, player_draw)
                 ELSE enemy_turn(p, e, enemy_action, enemy_draw),
                 player_action, enemy_action, player_draw, enemy_draw)

round(p, e, player_action, enemy_action, coin, player_draw, enemy_draw) ==
    round_first(player_first(player_action, enemy_action, p, e, coin),
                p, e, player_action, enemy_action, player_draw, enemy_draw)

AppCall(op) ==
    [op |-> op, action |-> SKIP, acted |-> FALSE, state |-> "InProcess"]

InitApp ==
    /\ scene = "Menu"
    /\ \E character \in world_sample : player = create_character(character)
    /\ enemy = NoCharacter
    /\ logs = << >>
    /\ last = AppCall("create")
    /\ panicked = FALSE
    /\ fn = NoFn

\* Msg::MenuAction(MenuAction::Battle) in Scene::Menu
MenuBattle ==
    /\ ~panicked /\ scene = "Menu"
    /\ player.attributes.level < AppLevelCap
    /\ \E character \in world_sample :
           enemy' = sample_at_level(character, player.attributes.level)
    /\ scene' = "Battle"
    /\ logs' = << <<"appeared", enemy'.name>> >>
    /\ last' = AppCall("battle")
    /\ UNCHANGED <<player, panicked, fn>>

\* Msg::MenuAction(MenuAction::Log(..)) in Scene::Menu: a button of one of
\* the player's actions logs the action's name.
MenuLog ==
    /\ ~panicked /\ scene = "Menu"
    /\ \E i \in 1..Len(player.attributes.actions) :
           logs' = << <<index(world_actions, player.attributes.actions[i]).name>> >>
    /\ last' = AppCall("log")
    /\ UNCHANGED <<scene, player, enemy, panicked, fn>>

\* Msg::MenuAction(MenuAction::Scout) in Scene::Menu
MenuScout ==
    /\ ~panicked /\ scene = "Menu"
    /\ logs' = << >>
    /\ last' = AppCall("scout")
    /\ UNCHANGED <<scene, player, enemy, panicked, fn>>

\* Msg::BattleAction(BattleAction::Flee) in Scene::Battle
Flee ==
    /\ ~panicked /\ scene = "Battle"
    /\ player' = refresh(player)
    /\ enemy' = NoCharacter
    /\ scene' = "Menu"
    /\ logs' = << >>
    /\ last' = AppCall("flee")
    /\ UNCHANGED <<panicked, fn>>

\* Msg::BattleAction(BattleAction::ActionChosen(id)) in Scene::Battle: one
\* whole round and what follows its outcome.  The id is that of one of the
\* player's action buttons.
ActionChosen ==
    /\ ~panicked /\ scene = "Battle"
    /\ \E player_action \in {index(world_actions, player.attributes.actions[i]) :
                                   i \in 1..Len(player.attributes.actions)},
          enemy_action \in {index(world_actions, enemy.attributes.actions[k]) :
                                  k \in 1..Len(enemy.attributes.actions)} :
       \E coin \in Coins(player_action, enemy_action, player, enemy),
          player_draw \in RoundDraws(player, enemy_action),
          enemy_draw \in RoundDraws(enemy, player_action) :
         /\ WithinCap(player_action, enemy)
         /\ WithinCap(enemy_action, player)
         /\ \E r \in {round(player, enemy, player_action, enemy_action, coin,
                           player_draw, enemy_draw)} :
            /\ panicked' = r.panic
            /\ logs' = r.logs
            /\ last' = [op |-> "round", action |-> player_action, acted |-> r.ended,
                        state |-> r.state, enemy_action |-> enemy_action,
                        first |-> r.first, level |-> player.attributes.level,
                        calls |-> r.calls, applied |-> r.applied,
                        mid |-> r.mid, healths |-> Healths(r),
                        speeds |-> <<character_priority(player),
                                     character_priority(enemy)>>]
            /\ IF r.panic \/ r.state = "InProcess"
               THEN /\ player' = r.player
                    /\ enemy' = r.enemy
                    /\ scene' = scene
               ELSE IF r.state = "Victory"
               THEN /\ player' = refresh(r.player)
                    /\ enemy' = NoCharacter
                    /\ scene' = "Menu"
               ELSE /\ \E character \in world_sample :
                           player' = create_character(character)
                    /\ enemy' = NoCharacter
                    /\ scene' = "Menu"
            /\ UNCHANGED fn

NextApp == MenuBattle \/ MenuLog \/ MenuScout \/ Flee \/ ActionChosen

SpecApp == InitApp /\ [][NextApp]_vars

\* C7: in every battle the application constructs the player's level is at
\* least 1, so no round panics in the Victory reward's division by the level.
C7_BattleLevelPositive ==
    /\ scene = "Battle" => player.attributes.level >= 1
    /\ (last.op = "round" /\ last.state = "Victory") => (last.level >= 1 /\ ~panicked)

\* A battle won by a player that an earlier won battle has levelled up.
C7_Witness ==
    /\ last.op = "round" /\ last.state = "Victory" /\ last.acted
    /\ last.level > 1
    /\ scene = "Menu"
    /\ player.attributes.level > last.level

\* Every component of a is at most that of b.
StatsLeq(a, b) ==
    /\ a.health <= b.health /\ a.attack <= b.attack
    /\ a.defense <= b.defense /\ a.speed <= b.speed

\* C19: no component of a character's realized stats ever becomes smaller:
\* not in the level set-up of sample_at_level and App::create, where the
\* stats that gain_experience gave are overwritten, and not in any step of
\* the application that keeps the character (battles, rewards, refreshes).
C19_StatsNeverShrink ==
    /\ [](\A character \in world_sample :
             /\ StatsLeq(gain_experience(character, EXPERIENCE_TO_LEVEL).attributes.stats,
                         create_character(character).attributes.stats)
             /\ \A level \in 0..AppLevelCap :
                    StatsLeq(gain_experience(character, level * EXPERIENCE_TO_LEVEL)
                                 .attributes.stats,
                             sample_at_level(character, level).attributes.stats))
    /\ [][/\ ~(last'.op = "round" /\ last'.state = "Defeat" /\ ~panicked')
                 => StatsLeq(player.attributes.stats, player'.attributes.stats)
          /\ (scene = "Battle" /\ scene' = "Battle")
                 => StatsLeq(enemy.attributes.stats, enemy'.attributes.stats)]_vars

\* A player that a won battle has levelled up: its stats are above those it
\* was created with.
C19_Witness ==
    /\ last.op = "round" /\ last.state = "Victory" /\ last.acted
    /\ scene = "Menu"
    /\ player.attributes.level = 2
    /\ player.attributes.stats.attack
           = 2 * scale_stats(player.species.stats, SCALING_FACTOR).attack

(***************************************************************************)
(* Species::scale as a function of its inputs: SpecSpeciesScale            *)
(***************************************************************************)
GROWTH_FACTOR == 47

MaxScaleArg == 3        \* Species::scale is tried on a in 0..MaxScaleArg
MaxIndexDraw == 4       \* each usize the generator gives is in 0..MaxIndexDraw

\* From<Stats<T>> for Vec<T> and From<Vec<T>> for Stats<T>
StatsToVec(stats) == <<stats.health, stats.attack, stats.defense, stats.speed>>
VecToStats(v) == MakeStats(v[1], v[2], v[3], v[4])

\* Line 510: a * self.bst / GROWTH_FACTOR
growth_factor(species, a) == (a * species.bst) \div GROWTH_FACTOR

\* Line 513: what the truncated components leave of the growth factor, the
\* number of values taken from the generator.
scale_shortfall(species, a) ==
    growth_factor(species, a)
        - StatsSum(scale_stats(species.stats, growth_factor(species, a)))

\* Line 515: for_each(|i| stats[i % n] += 1) over the values drawn.
RECURSIVE hand_out(_, _)
hand_out(stats, draws) ==
    IF Len(draws) = 0 THEN stats
    ELSE hand_out([stats EXCEPT ![(draws[1] % Len(stats)) + 1] = @ + 1], Tail(draws))

\* Mutant: a Species::scale that returns the truncated components.
species_scale_truncated(species, a, draws) ==
    scale_stats(species.stats, growth_factor(species, a))

\* Scale for Species<A>::scale.  `draws` are the values the generator gives.
species_scale(species, a, draws) ==
    VecToStats(hand_out(StatsToVec(scale_stats(species.stats,
                                               growth_factor(species, a))),
                        draws))

\* The species of scale_species_test and the two sampled ones.
ScaleSpecies ==
    {fake_species_with_bst(400), fake_species_with_bst(450),
     fake_species_with_bst(550), rock_species, paper_species}

InitSpeciesScale ==
    /\ scene = "None"
    /\ player = from_species(fake_species)
    /\ enemy = from_species(fake_species)
    /\ logs = << >>
    /\ last = NoCall
    /\ panicked = FALSE
    /\ \E species \in ScaleSpecies, a \in 0..MaxScaleArg :
           fn = [op |-> "input", species |-> species, a |-> a, draws |-> << >>,
                 out |-> StatsZero]

\* species.scale(a)
SpeciesScale ==
    /\ fn.op = "input"
    /\ \E draws \in [1..scale_shortfall(fn.species, fn.a) -> 0..MaxIndexDraw] :
           fn' = [fn EXCEPT !.op = "species scale", !.draws = draws,
                            !.out = species_scale(fn.species, fn.a, draws)]
    /\ UNCHANGED <<scene, player, enemy, logs, last, panicked>>

NextSpeciesScale == SpeciesScale

SpecSpeciesScale == InitSpeciesScale /\ [][NextSpeciesScale]_vars

\* C21: Species::scale(a) returns components that sum to exactly
\* g = floor(a * bst / 47): each component is at least its truncated share
\* floor(g * ratio / sum of ratios), the shortfall g - (sum of the truncated
\* shares) is added as that many unit increments on drawn component indices,
\* and with no shortfall the result is the truncated shares; so bst 400 with
\* a = 1 gives (2, 2, 2, 2).
C21_SpeciesScaleExact ==
    fn.op = "species scale" =>
        LET g == (fn.a * fn.species.bst) \div 47
            z == StatsSum(fn.species.stats)
            shares == MakeStats((g * fn.species.stats.health) \div z,
                                (g * fn.species.stats.attack) \div z,
                                (g * fn.species.stats.defense) \div z,
                                (g * fn.species.stats.speed) \div z)
        IN /\ StatsSum(fn.out) = g
           /\ StatsLeq(shares, fn.out)
           /\ Len(fn.draws) = g - StatsSum(shares)
           /\ \A k \in 1..4 :
                  StatsToVec(fn.out)[k] - StatsToVec(shares)[k]
                      = Cardinality({j \in 1..Len(fn.draws) : fn.draws[j] % 4 = k - 1})
           /\ g = StatsSum(shares) => fn.out = shares
           /\ (fn.species = fake_species_with_bst(400) /\ fn.a = 1)
                  => fn.out = MakeStats(2, 2, 2, 2)

\* The test's species of bst 450 scaled by 1: g = 9, shares of 2, and the
\* one unit left handed to the health by a drawn value that wraps around.
C21_Witness ==
    /\ fn.op = "species scale"
    /\ fn.species = fake_species_with_bst(450) /\ fn.a = 1
    /\ fn.draws = <<4>>
    /\ fn.out = MakeStats(3, 2, 2, 2)

(***************************************************************************)
(* The actions and refresh applied to two characters: SpecAct              *)
(***************************************************************************)
MaxActs == 3            \* at most this many act and refresh calls are made

\* The characters of action_tests: testing::fake_character with the level
\* and the stats the test writes, refreshed, and with the current alignment
\* and the statuses a caller has set (the fields are public).
ActCharacter(alignment, level, attack, defense, health, status) ==
    [refresh([from_species(fake_species) EXCEPT
                  !.attributes.level = level,
                  !.attributes.stats = MakeStats(health, attack, defense, 0)])
        EXCEPT !.state.alignment = alignment, !.state.status = status]

\* The user of attack_test (level 19, attack 17), a stronger, bleeding one,
\* and testing::fake_character as it is (level 0, attack 0).
ActUsers ==
    {ActCharacter(al, 19, 17, 0, 0, NoStatus) : al \in Alignments}
    \cup {refresh(from_species(fake_species))}
    \cup {ActCharacter(al, 50, 100, 13, 10,
                       and_modify_add(or_insert(NoStatus, "Bleed"), "Bleed", 1)) :
             al \in Alignments}

\* The targets of attack_test (health 100, defense 13), of pure_attack_test
\* (health 10) and of defend_test (health 10, defending).
ActTargets ==
    {ActCharacter(al, 0, 0, 13, 100, NoStatus) : al \in Alignments}
    \cup {ActCharacter(al, 0, 0, 0, 10, NoStatus) : al \in Alignments}
    \cup {ActCharacter(al, 0, 0, 13, 10, or_insert(NoStatus, "Defend")) :
             al \in Alignments}

\* The actions of action_tests, fake_attack(0) of action_pool_test1, and a
\* Bleed of power 2.
ActActions ==
    {MakeAttack("fake", 11, "Scissors", 0), MakeAttack("fake", 5, "Rock", 0),
     MakeAttack("fake", 0, "Scissors", 0),
     MakePureAttack("fake", 5), MakeDefend("fake"), MakeBleed("fake", 1),
     MakeBleed("fake", 2), MakeStun("fake"), SKIP}

\* kaizo.rs Character: its State has a health and a status map only.
kaizo_character(character) ==
    [character EXCEPT !.state = [health |-> character.state.health,
                                 status |-> character.state.status]]

\* kaizo.rs Character::refresh
kaizo_refresh(character) ==
    [character EXCEPT !.state = [health |-> character.attributes.stats.health,
                                 status |-> NoStatus]]

InitAct ==
    /\ scene = "None"
    /\ player \in ActUsers
    /\ enemy \in ActTargets
    /\ logs = << >>
    /\ last = NoCall
    /\ panicked = FALSE
    /\ fn = [op |-> "new", action |-> SKIP, n |-> 0, out |-> 0]

\* action.act(&mut user, &mut target): the player is the user.
Act ==
    /\ ~panicked
    /\ fn.n < MaxActs
    /\ \E action \in ActActions :
        \E r \in {act(action, player, enemy)} :
           /\ player' = r.user
           /\ enemy' = r.target
           /\ logs' = r.logs
           /\ panicked' = r.panic
           /\ fn' = [op |-> "act", action |-> action, n |-> fn.n + 1, out |-> 0]
    /\ UNCHANGED <<scene, last>>

\* user.refresh() or target.refresh(); fn.out keeps the character as it was.
ActRefresh ==
    /\ ~panicked
    /\ fn.n < MaxActs
    /\ \/ /\ player' = refresh(player)
          /\ fn' = [op |-> "refresh", action |-> SKIP, n |-> fn.n + 1, out |-> player]
          /\ UNCHANGED enemy
       \/ /\ enemy' = refresh(enemy)
          /\ fn' = [op |-> "refresh", action |-> SKIP, n |-> fn.n + 1, out |-> enemy]
          /\ UNCHANGED player
    /\ logs' = << >>
    /\ UNCHANGED <<scene, last, panicked>>

\* refresh() of kaizo.rs on the target as a kaizo.rs Character.
KaizoRefresh ==
    /\ ~panicked
    /\ fn.op \notin {"kaizo refresh", "effectiveness"}
    /\ fn' = [fn EXCEPT !.op = "kaizo refresh",
                        !.out = kaizo_refresh(kaizo_character(enemy))]
    /\ UNCHANGED <<scene, player, enemy, logs, last, panicked>>

\* user.state.alignment.effectiveness(target.state.alignment)
Effectiveness ==
    /\ ~panicked
    /\ fn.op \notin {"kaizo refresh", "effectiveness"}
    /\ fn' = [fn EXCEPT !.op = "effectiveness",
                        !.out = effectiveness(player.state.alignment,
                                              enemy.state.alignment)]
    /\ UNCHANGED <<scene, player, enemy, logs, last, panicked>>

NextAct == Act \/ ActRefresh \/ KaizoRefresh \/ Effectiveness

SpecAct == InitAct /\ [][NextAct]_vars

\* C22: effectiveness is total over the 9 ordered pairs of {Rock, Paper,
\* Scissors} with values in {5 (not very), 10 (neutral), 20 (super)}; for
\* distinct a, b, effectiveness(a, b) = 20 implies effectiveness(b, a) = 5;
\* and the value is neutral exactly when a = b.
C22_EffectivenessCycle ==
    fn.op = "effectiveness" =>
        LET a == player.state.alignment
            b == enemy.state.alignment
        IN /\ fn.out \in {5, 10, 20}
           /\ (a # b /\ fn.out = 20) => effectiveness(b, a) = 5
           /\ fn.out = 10 <=> a = b

\* Rock against Scissors: super effective.
C22_Witness ==
    /\ fn.op = "effectiveness"
    /\ player.state.alignment = "Rock" /\ enemy.state.alignment = "Scissors"
    /\ fn.out = 20

\* A step of SpecAct that applied an action of the kind to a target that
\* has no status k.
Applied(kind, k) ==
    /\ fn'.op = "act" /\ fn'.n = fn.n + 1
    /\ fn'.action.kind = kind
    /\ ~contains_key(enemy.state.status, k)

\* C23: an Attack on a target without Defend reduces the target's health,
\* clamped at 0, by exactly
\*   floor((floor(2 * level / 5) + 2) * power * floor(attack / defense)
\*             * stab * eff / 5000) + 2
\* with stab 15 if the user's current alignment is the attack's and 10
\* otherwise, and eff in {5, 10, 20} from effectiveness(attack alignment,
\* target's current alignment); the successive divisions by 50, 10 and 10
\* give the value of the single division by 5000.  (For a defense above 0.)
C23_AttackDamage ==
    [][(Applied("Attack", "Defend") /\ enemy.attributes.stats.defense > 0) =>
          LET self == fn'.action
              stab == IF player.state.alignment = self.alignment THEN 15 ELSE 10
              eff == IF self.alignment = enemy.state.alignment THEN 10
                     ELSE IF <<self.alignment, enemy.state.alignment>> \in
                             {<<"Rock", "Scissors">>, <<"Scissors", "Paper">>,
                              <<"Paper", "Rock">>} THEN 20
                     ELSE 5
              product == ((2 * player.attributes.level) \div 5 + 2) * self.power
                             * (player.attributes.stats.attack
                                    \div enemy.attributes.stats.defense)
                             * stab * eff
          IN /\ enemy'.state.health
                    = Max(0, enemy.state.health - (product \div 5000 + 2))
             /\ ((product \div 50) \div 10) \div 10 = product \div 5000
             /\ enemy' = [enemy EXCEPT !.state.health = enemy'.state.health]
             /\ player' = player]_vars

\* The level 50 user of attack 100 hits the Paper target of defense 13 with
\* the attack of its own alignment, Scissors: 22 * 11 * 7 * 15 * 20 / 5000 + 2
\* is 103, which takes the health from 100 to 0.
C23_Witness ==
    /\ fn.op = "act" /\ fn.n = 1 /\ fn.action = MakeAttack("fake", 11, "Scissors", 0)
    /\ player.attributes.level = 50 /\ player.state.alignment = "Scissors"
    /\ enemy.state.alignment = "Paper" /\ enemy.attributes.stats.health = 100
    /\ enemy.state.health = 0

\* The first call of attack_test has been made: the level 19 user of attack
\* 17, not Scissors-aligned, has used the Scissors attack of power 11 on the
\* target of defense 13 and health 100 that has no Defend.
Scenario1 ==
    /\ fn.op = "act" /\ fn.n = 1 /\ fn.action = MakeAttack("fake", 11, "Scissors", 0)
    /\ player.attributes.level = 19 /\ player.attributes.stats.attack = 17
    /\ player.state.alignment # "Scissors"
    /\ enemy.attributes.stats.defense = 13 /\ enemy.attributes.stats.health = 100
    /\ ~contains_key(enemy.state.status, "Defend")

\* C24 as stated: in scenario 1 with neutral effectiveness (eff 10, a
\* Scissors target) the target's health becomes 98.
C24_NeutralGives98 ==
    (Scenario1 /\ enemy.state.alignment = "Scissors") => enemy.state.health = 98

\* C24 as amended: in scenario 1 the health becomes 98 when the target is
\* Rock-aligned as in attack_test, where the Scissors attack is not very
\* effective (eff 5: 9 * 11 * 1 * 10 * 5 / 5000 + 2 = 2); with neutral
\* effectiveness (eff 10) the damage is 3 and the health becomes 97, and with
\* a Paper target (eff 20) it becomes 95.
C24_Scenario1Health ==
    Scenario1 =>
        enemy.state.health = CASE enemy.state.alignment = "Rock" -> 98
                               [] enemy.state.alignment = "Scissors" -> 97
                               [] OTHER -> 95

\* attack_test itself: a Rock user and a Rock target, health 98.
C24_Witness ==
    /\ Scenario1
    /\ player.state.alignment = "Rock" /\ enemy.state.alignment = "Rock"
    /\ enemy.state.health = 98

\* C25: a PureAttack on a target without Defend sets the target's health to
\* max(0, health - power), whatever the level, stats and alignments; so the
\* health never rises and stays at 0 once there: power 5 takes health 10 to
\* 5, 5 to 0 and 0 to 0.
C25_PureAttackClamps ==
    [][Applied("PureAttack", "Defend") =>
          LET h == enemy.state.health
              power == fn'.action.power
          IN /\ enemy'.state.health = Max(0, h - power)
             /\ enemy'.state.health <= h
             /\ h = 0 => enemy'.state.health = 0
             /\ (power = 5 /\ h = 10) => enemy'.state.health = 5
             /\ (power = 5 /\ h = 5) => enemy'.state.health = 0
             /\ enemy' = [enemy EXCEPT !.state.health = enemy'.state.health]
             /\ player' = player]_vars

\* The third PureAttack of power 5 on the target of health 10: 5, 0, 0.
C25_Witness ==
    /\ fn.op = "act" /\ fn.n = 3 /\ fn.action = MakePureAttack("fake", 5)
    /\ enemy.attributes.stats.health = 10 /\ enemy.attributes.stats.defense = 0
    /\ enemy.state.health = 0
    /\ enemy.state.status = NoStatus

\* C26: stacking debuffs accumulate: on a target without Bleed each Stun
\* raises the Stun intensity by exactly 1, and on a target without Stun each
\* Bleed raises the Bleed intensity by exactly its power, both from 0 when
\* the status is absent; so Stun applied twice to a fresh target gives
\* intensity 1, then 2, and Bleeds give the sum of their powers.
C26_DebuffsStack ==
    [][/\ Applied("Stun", "Bleed") =>
              /\ contains_key(enemy'.state.status, "Stun")
              /\ enemy'.state.status["Stun"] = Intensity(enemy, "Stun") + 1
              /\ (fn'.n = 1 /\ enemy.state.status = NoStatus)
                     => enemy'.state.status["Stun"] = 1
              /\ (fn'.n = 2 /\ fn.action.kind = "Stun" /\ DOMAIN enemy.state.status = {"Stun"})
                     => enemy'.state.status["Stun"] = 2
       /\ Applied("Bleed", "Stun") =>
              /\ contains_key(enemy'.state.status, "Bleed")
              /\ enemy'.state.status["Bleed"]
                     = Intensity(enemy, "Bleed") + fn'.action.power]_vars

\* stun_test: Stun applied twice to a fresh target, intensity 2.
C26_Witness ==
    /\ fn.op = "act" /\ fn.n = 2 /\ fn.action.kind = "Stun"
    /\ DOMAIN enemy.state.status = {"Stun"}
    /\ enemy.state.status["Stun"] = 2
    /\ enemy.state.health = enemy.attributes.stats.health

\* C27: Defend has priority 2; its act puts a Defend status of intensity 0
\* on the user, leaves a Defend entry that is already there unchanged (twice
\* is the same as once), and changes nothing else on the user and nothing on
\* the target.
C27_DefendAct ==
    [][(fn'.op = "act" /\ fn'.n = fn.n + 1 /\ fn'.action.kind = "Defend") =>
          /\ action_priority(fn'.action) = 2
          /\ contains_key(player'.state.status, "Defend")
          /\ player'.state.status["Defend"] = Intensity(player, "Defend")
          /\ \A k \in {"Stun", "Bleed"} : SameEntry(player, player', k)
          /\ player' = [player EXCEPT !.state.status = player'.state.status]
          /\ enemy' = enemy
          /\ act(fn'.action, player', enemy').user = player'
          /\ contains_key(player.state.status, "Defend") => player' = player]_vars

\* The bleeding user has defended twice.
C27_Witness ==
    /\ fn.op = "act" /\ fn.n = 2 /\ fn.action.kind = "Defend"
    /\ DOMAIN player.state.status = {"Bleed", "Defend"}
    /\ player.state.status["Defend"] = 0
    /\ HasLine(logs, "is defending")

\* d is c refreshed.
Refreshed(c, d) ==
    /\ d.state.health = c.attributes.stats.health
    /\ d.state.status = NoStatus
    /\ d.state.alignment = c.species.alignment
    /\ d.name = c.name /\ d.species = c.species /\ d.attributes = c.attributes

\* C30: refresh sets the current health to the realized max health, empties
\* the status map and resets the current alignment to the species alignment,
\* leaves name, species and attributes unchanged, and is idempotent: refresh
\* applied twice gives the character that refresh applied once gives.  The
\* refresh of kaizo.rs, whose state has no alignment, does the same for
\* health and statuses.
C30_RefreshResets ==
    /\ [](fn.op = "kaizo refresh" =>
              /\ fn.out.state = [health |-> enemy.attributes.stats.health,
                                 status |-> NoStatus]
              /\ fn.out.name = enemy.name /\ fn.out.species = enemy.species
              /\ fn.out.attributes = enemy.attributes
              /\ kaizo_refresh(fn.out) = fn.out)
    /\ [][(fn'.op = "refresh" /\ fn'.n = fn.n + 1) =>
              /\ \/ /\ fn'.out = player /\ Refreshed(player, player')
                    /\ refresh(player') = player' /\ enemy' = enemy
                 \/ /\ fn'.out = enemy /\ Refreshed(enemy, enemy')
                    /\ refresh(enemy') = enemy' /\ player' = player
              /\ refresh(refresh(fn'.out)) = refresh(fn'.out)]_vars

\* A hurt, stunned target whose current alignment was not its species' has
\* been refreshed.
C30_Witness ==
    /\ fn.op = "refresh"
    /\ fn.out.state.alignment # fn.out.species.alignment
    /\ contains_key(fn.out.state.status, "Stun")
    /\ 0 < fn.out.state.health
    /\ fn.out.state.health < fn.out.attributes.stats.health
    /\ enemy = [fn.out EXCEPT !.state = [alignment |-> "Rock", health |-> 100,
                                         status |-> NoStatus]]

(***************************************************************************)
(* The order of a round (under SpecApp)                                    *)
(***************************************************************************)
\* C28: the application runs player_turn before enemy_turn if the player's
\* action has the strictly higher priority, or the priorities are equal and
\* the player's speed is strictly higher; it runs enemy_turn first if the
\* enemy's action has the strictly higher priority, or the priorities are
\* equal and the enemy's speed is strictly higher; only with equal priorities
\* and equal speeds can either order occur.  Both turns are always invoked,
\* followed by exactly one end_turn.
\* An Attack on a character of defense 0 panics in its turn instead, and
\* the calls after it are not made.
C28_RoundOrder ==
    [][last'.op = "round" =>
          LET pp == action_priority(last'.action)
              ep == action_priority(last'.enemy_action)
              ps == player.attributes.stats.speed
              es == enemy.attributes.stats.speed
          IN /\ (pp > ep \/ (pp = ep /\ ps > es))
                    => last'.calls = <<"player_turn", "enemy_turn", "end_turn">>
             /\ (ep > pp \/ (pp = ep /\ es > ps))
                    => last'.calls = <<"enemy_turn", "player_turn", "end_turn">>
             /\ last'.calls \in {<<"player_turn", "enemy_turn", "end_turn">>,
                                 <<"enemy_turn", "player_turn", "end_turn">>}
             /\ last'.first = (last'.calls[1] = "player_turn")]_vars


(***************************************************************************)
(* ActionPool::index as a function of its inputs: SpecPool                 *)
(***************************************************************************)
MaxBeyond == 3          \* ids up to this far beyond the pool's length are tried

\* ActionPool::empty_pool
empty_pool ==
    [attack |-> << >>, pure_attack |-> << >>, defend |-> << >>, bleed |-> << >>,
     stun |-> << >>, padding |-> 0]

\* The pools of action_pool_tests (empty, and with the one attack
\* fake_attack(0)), with_attacks of two attacks, and the world's pool.
Pools ==
    {empty_pool,
     [empty_pool EXCEPT !.attack = <<MakeAttack("fake", 0, "Scissors", 0)>>],
     with_padding(<<MakeAttack("Rock Punch", 100, "Rock", 0),
                    MakeAttack("Paper Kick", 60, "Paper", 0)>>, 0),
     world_actions}

\* The ids: 0 (usize::MIN) up to some beyond the length, and the largest
\* integer of the checker, which stands for usize::MAX: index compares the
\* id with a length and takes a length off an id that is not below it.
PoolIds(pool) == 0..(pool_len(pool) + MaxBeyond) \cup {MaxI32}

InitPool ==
    /\ scene = "None"
    /\ player = from_species(fake_species)
    /\ enemy = from_species(fake_species)
    /\ logs = << >>
    /\ last = NoCall
    /\ panicked = FALSE
    /\ \E pool \in Pools : \E id \in PoolIds(pool) :
           fn = [op |-> "input", pool |-> pool, id |-> id, out |-> SKIP]

\* &pool[id]
Index ==
    /\ fn.op = "input"
    /\ fn' = [fn EXCEPT !.op = "index", !.out = index(fn.pool, fn.id)]
    /\ UNCHANGED <<scene, player, enemy, logs, last, panicked>>

NextPool == Index

SpecPool == InitPool /\ [][NextPool]_vars

\* C29: action resolution is total: for every id, usize::MAX included,
\* indexing the pool returns an action; an id below the pool's length gives
\* the id-th action in the fixed order attack, pure_attack, defend, bleed,
\* stun, and every id at or beyond the length (every id of an empty pool)
\* gives Skip.
C29_IndexTotal ==
    fn.op = "index" =>
        LET all == fn.pool.attack \o fn.pool.pure_attack \o fn.pool.defend
                       \o fn.pool.bleed \o fn.pool.stun
        IN /\ fn.id < Len(all) => fn.out = all[fn.id + 1]
           /\ fn.id >= Len(all) => fn.out = SKIP
           /\ fn.out.kind \in {"Attack", "PureAttack", "Defend", "Bleed", "Stun", "Skip"}
           /\ fn.pool = empty_pool => fn.out.name = "Skip"

\* The largest id on the world's pool, which is not empty, gives Skip.
C29_Witness ==
    /\ fn.op = "index"
    /\ fn.pool = world_actions
    /\ fn.id = MaxI32 /\ fn.id > pool_len(world_actions) + fn.pool.padding
    /\ fn.out = SKIP

(***************************************************************************)
(* Experience::experience as a function of its inputs: SpecValue           *)
(***************************************************************************)
MaxValueLevel == 12     \* experience is tried on levels 0..MaxValueLevel and the tests'

\* The bsts and levels of experience_tests, the bounds of a sampled bst, and
\* the small levels.
ValueBsts == {0, 1, 100, 200, 300, 400, 450, 500, 600, 699}
ValueLevels == 0..MaxValueLevel \cup {25, 50, 100}

\* testing::fake_character with the bst and level a test writes.
ValueCharacter(bst, level) ==
    [from_species(fake_species_with_bst(bst)) EXCEPT !.attributes.level = level]

InitValue ==
    /\ scene = "None"
    /\ \E bst \in ValueBsts, level \in ValueLevels : player = ValueCharacter(bst, level)
    /\ enemy = from_species(fake_species)
    /\ logs = << >>
    /\ last = NoCall
    /\ panicked = FALSE
    /\ fn = [op |-> "input", out |-> 0]

\* character.experience()
ExperienceValue ==
    /\ fn.op = "input"
    /\ fn' = [op |-> "experience", out |-> experience(player)]
    /\ UNCHANGED <<scene, player, enemy, logs, last, panicked>>

NextValue == ExperienceValue

SpecValue == InitValue /\ [][NextValue]_vars

\* floor(log2 x) for x >= 1: the k with 2^k <= x < 2^(k+1).
L2(x) == CHOOSE k \in 0..30 : 2^k <= x /\ x < 2 * 2^k

\* C31: experience() returns 0 when the level is 0 or the bst is 0, and
\* otherwise floor((bst * L2(bst + 1)) * floor(level / L2(level + 1)) / 31)
\* with L2(x) = floor(log2 x); for every level >= 1 the divisor L2(level + 1)
\* is at least 1, so nothing divides by zero; bst 100 at level 1 gives 19 and
\* bst 450 at level 100 gives 1858 (and the other values of the two tables).
C31_ExperienceValue ==
    fn.op = "experience" =>
        LET bst == player.species.bst
            level == player.attributes.level
        IN /\ (level = 0 \/ bst = 0) => fn.out = 0
           /\ (level >= 1 /\ bst >= 1) =>
                  /\ L2(level + 1) >= 1
                  /\ fn.out = ((bst * L2(bst + 1)) * (level \div L2(level + 1))) \div 31
           /\ level = 1 =>
                  /\ bst = 100 => fn.out = 19
                  /\ bst = 200 => fn.out = 45
                  /\ bst = 300 => fn.out = 77
                  /\ bst = 400 => fn.out = 103
                  /\ bst = 500 => fn.out = 129
                  /\ bst = 600 => fn.out = 174
           /\ bst = 450 =>
                  /\ level = 1 => fn.out = 116
                  /\ level = 5 => fn.out = 232
                  /\ level = 10 => fn.out = 348
                  /\ level = 25 => fn.out = 696
                  /\ level = 50 => fn.out = 1161
                  /\ level = 100 => fn.out = 1858

\* experience_table_test2's last line: bst 450 at level 100 gives 1858.
C31_Witness ==
    /\ fn.op = "experience"
    /\ player.species.bst = 450 /\ player.attributes.level = 100
    /\ fn.out = 1858

(***************************************************************************)
(* Rounds of the application (under SpecApp)                               *)
(***************************************************************************)
\* Did the turn of the player (of the enemy) run its action in the round?
PlayerApplied(call) == call.applied[IF call.first THEN 1 ELSE 2]
EnemyApplied(call) == call.applied[IF call.first THEN 2 ELSE 1]

\* An Attack or a PureAttack of priority below 2.
PlainAttack(action) ==
    \/ action.kind = "PureAttack"
    \/ action.kind = "Attack" /\ action.priority < 2

\* C32: in a round where a character that is not stunned, or that recovers
\* from its Stun on its turn, uses Defend and the opponent uses an Attack or
\* a PureAttack of priority below 2, the Defend resolves first and the
\* defender's health is not reduced by that attack in the round: after the
\* round it is what the defender's own bleed, if any, leaves of it.
C32_DefendGoesFirst ==
    [][last'.op = "round" =>
          /\ (last'.action.kind = "Defend" /\ PlainAttack(last'.enemy_action)) =>
                 /\ last'.calls[1] = "player_turn"
                 /\ ~contains_key(player.state.status, "Stun") => PlayerApplied(last')
                 /\ PlayerApplied(last') =>
                        last'.healths[1]
                            = Max(0, player.state.health - Intensity(player, "Bleed"))
          /\ (last'.enemy_action.kind = "Defend" /\ PlainAttack(last'.action)) =>
                 /\ last'.calls[1] = "enemy_turn"
                 /\ ~contains_key(enemy.state.status, "Stun") => EnemyApplied(last')
                 /\ EnemyApplied(last') =>
                        last'.healths[2]
                            = Max(0, enemy.state.health - Intensity(enemy, "Bleed"))]_vars

\* The slower enemy's Defend went before the faster player's PureAttack
\* and blocked it: the enemy is still at full health.
C32_Witness ==
    /\ last.op = "round" /\ last.state = "InProcess"
    /\ last.enemy_action.kind = "Defend" /\ last.action.kind = "PureAttack"
    /\ last.speeds[1] > last.speeds[2]
    /\ last.calls[1] = "enemy_turn" /\ last.applied = <<TRUE, TRUE>>
    /\ HasLine(logs, "blocked attack")
    /\ enemy.state.health = enemy.attributes.stats.health

(***************************************************************************)
(* Finished battles and healths over the engine's calls (under Spec)       *)
(***************************************************************************)
\* C33: Victory and Defeat are absorbing: once battle_state is Victory or
\* Defeat, a player_turn, an enemy_turn or an end_turn changes neither
\* character's health or statuses, and the status stays what it was: it
\* neither returns to InProgress nor switches between Victory and Defeat.
C33_FinishedIsAbsorbing ==
    [][(last'.op \in Turns \cup {"end_turn"}
            /\ battle_state(player, enemy) # "InProcess") =>
          /\ player'.state = player.state
          /\ enemy'.state = enemy.state
          /\ battle_state(player', enemy') = battle_state(player, enemy)
          /\ last'.state = battle_state(player, enemy)]_vars

\* An end_turn on a won battle: the enemy that bled to 0 behind its Defend
\* keeps both statuses and the battle is still won.
C33_Witness ==
    /\ last.op = "end_turn" /\ last.state = "Victory"
    /\ enemy.state.health = 0
    /\ contains_key(enemy.state.status, "Bleed")
    /\ contains_key(enemy.state.status, "Defend")
    /\ HasLine(logs, "Defeated")
    /\ battle_state(player, enemy) = "Victory"

\* C34: within a battle no operation heals: every player_turn, enemy_turn
\* and end_turn leaves each character's current health less than or equal
\* to its value before the call.
C34_NoHealing ==
    [][last'.op \in Turns \cup {"end_turn"} =>
          /\ player'.state.health <= player.state.health
          /\ enemy'.state.health <= enemy.state.health]_vars

\* A turn that cost both sides health: the bleeding player hit the enemy
\* and was hurt by its bleed.
C34_Witness ==
    /\ last.op = "player_turn" /\ last.acted
    /\ last.action.kind \in {"Attack", "PureAttack"}
    /\ HasLine(logs, "was hurt by bleed")
    /\ 0 < player.state.health /\ player.state.health < player.attributes.stats.health
    /\ 0 < enemy.state.health /\ enemy.state.health < enemy.attributes.stats.health
    /\ ~contains_key(enemy.state.status, "Defend")

\* The rounds a bleed of intensity n leaves to a health of h: ceil(h / n).
BleedRounds(h, n) == (h + n - 1) \div n

\* C35: a bleeding character forces termination.  In a round that a
\* character starts with Bleed of intensity n >= 1 and health h, the battle
\* being InProgress, its turn, when taken while InProgress, lowers its health
\* by at least min(health, n); and when the battle is still InProgress after
\* the round, the character still bleeds at n or more and ceil(health / n)
\* is smaller than before: after at most ceil(h / n) rounds the battle is no
\* longer InProgress, whatever actions are chosen.
\* A bleeding character's Attack on a defense of 0 panics before its bleed
\* is taken instead, and the battle stays InProgress.
C35_BleedTerminates ==
    [][last'.op = "round" =>
          /\ battle_state(player, enemy) = "InProcess"
          /\ Intensity(player, "Bleed") >= 1 =>
                 /\ last'.first =>
                        last'.mid[1] <= player.state.health
                                          - Min(player.state.health,
                                                Intensity(player, "Bleed"))
                 /\ (~last'.first /\ last'.mid[1] > 0 /\ last'.mid[2] > 0) =>
                        last'.healths[1] <= last'.mid[1]
                                              - Min(last'.mid[1],
                                                    Intensity(player, "Bleed"))
                 /\ last'.state = "InProcess" =>
                        /\ Intensity(player', "Bleed") >= Intensity(player, "Bleed")
                        /\ BleedRounds(player'.state.health, Intensity(player', "Bleed"))
                             < BleedRounds(player.state.health,
                                           Intensity(player, "Bleed"))
          /\ Intensity(enemy, "Bleed") >= 1 =>
                 /\ ~last'.first =>
                        last'.mid[2] <= enemy.state.health
                                          - Min(enemy.state.health,
                                                Intensity(enemy, "Bleed"))
                 /\ (last'.first /\ last'.mid[1] > 0 /\ last'.mid[2] > 0) =>
                        last'.healths[2] <= last'.mid[2]
                                              - Min(last'.mid[2],
                                                    Intensity(enemy, "Bleed"))
                 /\ last'.state = "InProcess" =>
                        /\ Intensity(enemy', "Bleed") >= Intensity(enemy, "Bleed")
                        /\ BleedRounds(enemy'.state.health, Intensity(enemy', "Bleed"))
                             < BleedRounds(enemy.state.health,
                                           Intensity(enemy, "Bleed"))]_vars


\* The intensities of a character's statuses are well-formed; for a Stun
\* this includes a value of random::<u32>() that does not end it.
WellFormed(character) ==
    /\ DOMAIN character.state.status \subseteq {"Defend", "Stun", "Bleed"}
    /\ contains_key(character.state.status, "Defend") =>
           character.state.status["Defend"] = 0
    /\ contains_key(character.state.status, "Stun") =>
           /\ character.state.status["Stun"] >= 1
           /\ character.state.status["Stun"] + 1 >= 2
           /\ \E draw \in Draws(character) :
                  draw % (character.state.status["Stun"] + 1) # 0
    /\ contains_key(character.state.status, "Bleed") =>
           character.state.status["Bleed"] >= 0

\* C36: in every state reached from refreshed characters through the
\* pool's actions the status intensities are well-formed: a present Defend
\* has intensity 0, a present Stun has intensity >= 1, so that the recovery
\* draw is taken modulo at least 2 and recovery is never certain, and a
\* present Bleed has intensity >= 0.
C36_IntensitiesWellFormed == WellFormed(player) /\ WellFormed(enemy)

\* All three statuses are present: the bleeding player defends and the
\* enemy is stunned.
C36_Witness ==
    /\ contains_key(player.state.status, "Defend")
    /\ contains_key(player.state.status, "Bleed")
    /\ contains_key(enemy.state.status, "Stun")
    /\ enemy.state.status["Stun"] = 1
    /\ battle_state(player, enemy) = "InProcess"

(***************************************************************************)
(* The least damage of an Attack (under SpecAct)                           *)
(***************************************************************************)
\* C37: every Attack that is not blocked by Defend and is applied to a
\* target with positive defense deals at least 2 damage: the target's health
\* after it is at most max(0, health - 2), also when the user's attack is
\* below the target's defense (stat ratio 0) or the power is 0.
C37_AttackDealsAtLeastTwo ==
    [][(Applied("Attack", "Defend") /\ enemy.attributes.stats.defense > 0) =>
          /\ enemy'.state.health <= Max(0, enemy.state.health - 2)
          /\ (fn'.action.power = 0
                \/ player.attributes.stats.attack < enemy.attributes.stats.defense)
                 => enemy'.state.health = Max(0, enemy.state.health - 2)]_vars

\* The user of attack 0 has used the attack of power 0 on the target of
\* defense 13 and health 100: the health is 98.
C37_Witness ==
    /\ fn.op = "act" /\ fn.n = 1 /\ fn.action = MakeAttack("fake", 0, "Scissors", 0)
    /\ player.attributes.stats.attack = 0
    /\ enemy.attributes.stats.defense = 13 /\ enemy.attributes.stats.health = 100
    /\ enemy.state.health = 98

(***************************************************************************)
(* The scenes of the application (under SpecApp)                           *)
(***************************************************************************)
\* A character at its realized max health with no active status.
Fresh(character) ==
    /\ character.state.health = character.attributes.stats.health
    /\ character.state.status = NoStatus

\* C38: whenever the scene is Menu (after creation, Flee, Victory or the
\* re-roll after Defeat) the player's current health is its realized max
\* health and it has no active status; and every battle starts with both
\* characters at full health with no statuses and with the enemy's level
\* equal to the player's.
C38_SceneInvariant ==
    /\ scene = "Menu" => Fresh(player)
    /\ last.op = "battle" =>
           /\ scene = "Battle"
           /\ Fresh(player) /\ Fresh(enemy)
           /\ enemy.attributes.level = player.attributes.level

\* Back in the menu after a won round that the player ended hurt: its
\* health is full again.
C38_Witness ==
    /\ scene = "Menu" /\ last.op = "round" /\ last.state = "Victory"
    /\ last.healths[1] < player.attributes.stats.health
    /\ player.state.health = player.attributes.stats.health
    /\ player.state.health > 0
    /\ HasLine(logs, "Defeated")

(***************************************************************************)
(* Generated attacks: SpecSample                                           *)
(***************************************************************************)
WORST_ATTACK == 10
BEST_ATTACK == 150
PRIORITY_MOVE_CHANCE == 4

MaxSampleDraw == 9      \* rng.gen::<i32>() is drawn from -MaxSampleDraw..MaxSampleDraw
                        \* and from the ends of the i32 range

\* i32 `%` by a positive y: the remainder has the sign of x.
rem_i32(x, y) == IF x < 0 /\ x % y # 0 THEN (x % y) - y ELSE x % y

\* i32 `/` by a positive y: the quotient is truncated towards 0.
div_i32(x, y) == IF x < 0 /\ x % y # 0 THEN (x \div y) + 1 ELSE x \div y

\* Mutant: priority 1 for one draw in PRIORITY_MOVE_CHANCE.
attack_priority_chance(x) == IF rem_i32(x, PRIORITY_MOVE_CHANCE) = 0 THEN 1 ELSE 0

\* rng.gen::<i32>() % PRIORITY_MOVE_CHANCE / PRIORITY_MOVE_CHANCE for the
\* draw x: `%` and `/` associate to the left.
attack_priority(x) ==
    div_i32(rem_i32(x, PRIORITY_MOVE_CHANCE), PRIORITY_MOVE_CHANCE)

\* format!("{:?} {:?}", alignment, suffix), for two of the suffixes.
attack_name(alignment, suffix) ==
    CASE alignment = "Rock" /\ suffix = "Punch" -> "Rock Punch"
      [] alignment = "Rock" /\ suffix = "Kick" -> "Rock Kick"
      [] alignment = "Paper" /\ suffix = "Punch" -> "Paper Punch"
      [] alignment = "Paper" /\ suffix = "Kick" -> "Paper Kick"
      [] alignment = "Scissors" /\ suffix = "Punch" -> "Scissors Punch"
      [] OTHER -> "Scissors Kick"

\* Distribution<Attack> for Standard::sample, from what the generator gave.
sample_attack(alignment, suffix, power, x) ==
    MakeAttack(attack_name(alignment, suffix), power, alignment, attack_priority(x))

SampleDraws ==
    (0 - MaxSampleDraw)..MaxSampleDraw
    \cup {MinI32, MinI32 + 1, MinI32 + 2, MinI32 + 3,
          MaxI32 - 3, MaxI32 - 2, MaxI32 - 1, MaxI32}

SamplePowers == {WORST_ATTACK, BEST_ATTACK - 1}

InitSample ==
    /\ scene = "None"
    /\ player = from_species(fake_species)
    /\ enemy = from_species(fake_species)
    /\ logs = << >>
    /\ last = NoCall
    /\ panicked = FALSE
    /\ \E alignment \in Alignments, suffix \in {"Punch", "Kick"},
          power \in SamplePowers, x \in SampleDraws :
           fn = [op |-> "input", alignment |-> alignment, suffix |-> suffix,
                 power |-> power, x |-> x, out |-> SKIP]

\* let attack: Attack = Standard.sample(rng)
SampleAttack ==
    /\ fn.op = "input"
    /\ fn' = [fn EXCEPT !.op = "sample",
                        !.out = sample_attack(fn.alignment, fn.suffix, fn.power, fn.x)]
    /\ UNCHANGED <<scene, player, enemy, logs, last, panicked>>

NextSample == SampleAttack

SpecSample == InitSample /\ [][NextSample]_vars

\* C39: the priority of a generated Attack, (x % 4) / 4 for a random i32 x
\* with truncating remainder and division, is 0 for every x: the remainder
\* lies strictly between -4 and 4.  Hence every pooled Attack has priority
\* 0, and among the actions of a pool of generated attacks only Defend has
\* a priority other than 0.
C39_GeneratedPriorityIsZero ==
    fn.op = "sample" =>
        /\ rem_i32(fn.x, 4) \in -3..3
        /\ fn.x = 4 * div_i32(fn.x, 4) + rem_i32(fn.x, 4)
        /\ (fn.x < 0 => rem_i32(fn.x, 4) <= 0) /\ (fn.x > 0 => rem_i32(fn.x, 4) >= 0)
        /\ fn.out.priority = 0
        /\ action_priority(fn.out) = 0
        /\ \A padding \in {0, 1} :
             \A id \in 0..(pool_len(with_padding(<<fn.out>>, padding)) + padding) :
                (action_priority(index(with_padding(<<fn.out>>, padding), id)) # 0)
                    <=> (index(with_padding(<<fn.out>>, padding), id).kind = "Defend")

\* The draw -3: its remainder is -3, which a flooring division by 4 would
\* take to -1 and the truncating one takes to 0.
C39_Witness ==
    /\ fn.op = "sample" /\ fn.x = -3
    /\ rem_i32(fn.x, PRIORITY_MOVE_CHANCE) = -3
    /\ (rem_i32(fn.x, PRIORITY_MOVE_CHANCE) \div PRIORITY_MOVE_CHANCE) = -1
    /\ fn.out.priority = 0

====
